---- MODULE Spec2Model ----
(***************************************************************************)
(* compliance-audit-router: the alert normalizer (pkg/splunk), the alert   *)
(* pipeline and the Jira webhook handler (pkg/listeners) and the ticket    *)
(* lifecycle engine (pkg/jira), as state machines.                         *)
(*                                                                         *)
(* Go strings are TLA+ strings; Go slices are sequences.  A value of type  *)
(* interface{} (a decoded search-result field) is a record [kind, v].      *)
(***************************************************************************)
EXTENDS Integers, Sequences, FiniteSets, TLC

VARIABLES
    \* ---- normalizer harness (SpecNorm) ----
    npc,        \* "off" | "in" | "out" | "panic"
    raw,        \* the SearchResult handed to NewAlertDetails
    out,        \* the AlertDetails returned
    valid,      \* the value of out.Valid()
    \* ---- request handling (Spec) ----
    cfg,        \* config.AppConfig: DryRun, LDAPConfig.Enabled, MessageTemplate
    handler,    \* which handler runs the current request
    pc,         \* its position
    results,    \* searchResults.SearchResults.Results of the current request
    details,    \* searchResults.Details() of the current request
    idx,        \* number of compliance events whose loop body has run
    hlog,       \* calls made by the handler in the current request, in order
    tcalls,     \* tracker calls made by the latest CreateTicket / HandleUpdate
    resp,       \* statuses and bodies written to the http.ResponseWriter
    issues,     \* the issues held by the tracker
    metrics,    \* the counters' series labelled with the uuid of the current request
    \* ---- concurrent requests and the standard logger (SpecLog) ----
    prefix,     \* the prefix of the standard logger of package log
    rpc,        \* the position of each of the concurrent requests
    loglines,   \* the lines written to the log: by which request, under which prefix
    \* ---- configuration validation (SpecCfg) ----
    conf,       \* the Config under validation: its three host settings
    vpc,        \* "off" | "loaded" | "checked" | "panic"
    verrs,      \* the errors hostFieldsAreParsable has returned
    \* ---- correlation labels written and parsed back (SpecLbl) ----
    lpc,        \* "off" | "ids" | "written" | "parsed"
    written,    \* the account ids CreateTicket has resolved: SRE and manager
    labelled,   \* the issue CreateTicket has built for them
    parsed,     \* sreId and managerId as HandleUpdate reads them off its labels
    \* ---- the settings logged at startup (SpecSet) ----
    spc,        \* "off" | "read" | "printed"
    settings,   \* viper.GetViper().AllSettings()
    printed     \* the lines checkSettings has logged

normVars == <<npc, raw, out, valid>>
reqVars == <<cfg, handler, pc, results, details, idx, hlog, tcalls, resp, issues, metrics>>
logVars == <<prefix, rpc, loglines>>
cfgVars == <<conf, vpc, verrs>>
lblVars == <<lpc, written, labelled, parsed>>
setVars == <<spc, settings, printed>>
vars == <<npc, raw, out, valid, cfg, handler, pc, results, details, idx, hlog, tcalls, resp, issues, metrics,
          prefix, rpc, loglines, conf, vpc, verrs, lpc, written, labelled, parsed,
          spc, settings, printed>>

-----------------------------------------------------------------------------
(* Bounds *)

\* SearchResults.Results holds at most MaxResults records
MaxResults == 2
\* the tracker holds at most MaxIssues issues
MaxIssues == 1
\* the log holds at most MaxLogLines lines
MaxLogLines == 3

-----------------------------------------------------------------------------
(* Go string helpers *)

\* strings.Index(s, sub): 1-based position of the first occurrence, 0 if none
Index(s, sub) ==
    LET n == Len(s)
        m == Len(sub)
        hits == {i \in 1..(n - m + 1) : SubSeq(s, i, i + m - 1) = sub}
    IN IF m > n THEN 0
       ELSE IF hits = {} THEN 0
       ELSE CHOOSE i \in hits : \A j \in hits : i <= j

\* strings.Contains(s, sub)
Contains(s, sub) == Index(s, sub) > 0

\* strings.Cut(s, sep): before, after, found
Cut(s, sep) ==
    LET i == Index(s, sep)
    IN IF i > 0
       THEN [before |-> SubSeq(s, 1, i - 1),
             after |-> SubSeq(s, i + Len(sep), Len(s)),
             found |-> TRUE]
       ELSE [before |-> s, after |-> "", found |-> FALSE]

RECURSIVE Join(_, _)
\* strings.Join(elems, sep)
Join(elems, sep) ==
    IF Len(elems) = 0 THEN ""
    ELSE IF Len(elems) = 1 THEN elems[1]
    ELSE elems[1] \o sep \o Join(Tail(elems), sep)

-----------------------------------------------------------------------------
(* interface{} values of a SearchResult (map[string]interface{}) *)

VStr(s) == [kind |-> "string", v |-> s]
VStrs(ss) == [kind |-> "[]string", v |-> ss]
VList(es) == [kind |-> "[]interface{}", v |-> es]
VNum(n) == [kind |-> "float64", v |-> n]
VBool(b) == [kind |-> "bool", v |-> b]
VNil == [kind |-> "nil", v |-> "nil"]

\* fmt.Sprint of a scalar
SprintScalar(i) ==
    CASE i.kind = "string" -> i.v
      [] i.kind = "float64" -> ToString(i.v)
      [] i.kind = "bool" -> (IF i.v THEN "true" ELSE "false")
      [] OTHER -> "<nil>"

\* fmt.Sprint(i)
Sprint(i) ==
    CASE i.kind = "[]string" -> "[" \o Join(i.v, " ") \o "]"
      [] i.kind = "[]interface{}" ->
            "[" \o Join([k \in 1..Len(i.v) |-> SprintScalar(i.v[k])], " ") \o "]"
      [] OTHER -> SprintScalar(i)

-----------------------------------------------------------------------------
(* time.Parse with the layout SplunkTimeFormat = "2006-01-02T15:04:05.GMT" *)

Digits == "0123456789"

\* isDigit(s, i) for the 1-based position i
IsDigit(s, i) == i <= Len(s) /\ Contains(Digits, SubSeq(s, i, i))

DigitVal(c) == Index(Digits, c) - 1

RECURSIVE Atoi(_)
\* value of a string of decimal digits
Atoi(s) ==
    IF Len(s) = 0 THEN 0
    ELSE Atoi(SubSeq(s, 1, Len(s) - 1)) * 10 + DigitVal(SubSeq(s, Len(s), Len(s)))

AllDigits(s) == \A i \in 1..Len(s) : IsDigit(s, i)

RECURSIVE Pow10(_)
Pow10(n) == IF n <= 0 THEN 1 ELSE 10 * Pow10(n - 1)

\* daysIn(month, year)
DaysIn(m, y) ==
    IF m = 2
    THEN (IF (y % 4 = 0) /\ ((y % 100 # 0) \/ (y % 400 = 0)) THEN 29 ELSE 28)
    ELSE IF m \in {4, 6, 9, 11} THEN 30 ELSE 31

\* time.Time{}
ZeroTime == [year |-> 1, month |-> 1, day |-> 1, hour |-> 0, min |-> 0, sec |-> 0, nsec |-> 0]

RECURSIVE DigitRun(_)
\* number of leading digits of s
DigitRun(s) ==
    IF Len(s) > 0 /\ IsDigit(s, 1) THEN 1 + DigitRun(SubSeq(s, 2, Len(s))) ELSE 0

\* time.Parse(SplunkTimeFormat, s): [ok, t].  The hour element "15" takes one
\* or two digits; a fractional second after the seconds is accepted although
\* the layout has none; everything else is fixed width or literal.
ParseSplunkTime(s) ==
    LET bad == [ok |-> FALSE, t |-> ZeroTime]
        \* "2006-01-02T": 11 characters
        dateShape == /\ Len(s) >= 11
                     /\ AllDigits(SubSeq(s, 1, 4))
                     /\ SubSeq(s, 5, 5) = "-"
                     /\ AllDigits(SubSeq(s, 6, 7))
                     /\ SubSeq(s, 8, 8) = "-"
                     /\ AllDigits(SubSeq(s, 9, 10))
                     /\ SubSeq(s, 11, 11) = "T"
        afterT == SubSeq(s, 12, Len(s))
        hourLen == IF IsDigit(afterT, 1) /\ IsDigit(afterT, 2) THEN 2 ELSE 1
        afterH == SubSeq(afterT, hourLen + 1, Len(afterT))
        \* ":04:05" : 6 characters
        timeShape == /\ IsDigit(afterT, 1)
                     /\ Len(afterH) >= 6
                     /\ SubSeq(afterH, 1, 1) = ":"
                     /\ AllDigits(SubSeq(afterH, 2, 3))
                     /\ SubSeq(afterH, 4, 4) = ":"
                     /\ AllDigits(SubSeq(afterH, 5, 6))
        afterS == SubSeq(afterH, 7, Len(afterH))
        hasFrac == /\ Len(afterS) >= 2
                   /\ SubSeq(afterS, 1, 1) \in {".", ","}
                   /\ IsDigit(afterS, 2)
        fracLen == IF hasFrac THEN DigitRun(SubSeq(afterS, 2, Len(afterS))) ELSE 0
        fracDigits == SubSeq(afterS, 2, 1 + (IF fracLen > 9 THEN 9 ELSE fracLen))
        rest == SubSeq(afterS, fracLen + (IF hasFrac THEN 2 ELSE 1), Len(afterS))
        y == Atoi(SubSeq(s, 1, 4))
        mo == Atoi(SubSeq(s, 6, 7))
        d == Atoi(SubSeq(s, 9, 10))
        h == Atoi(SubSeq(afterT, 1, hourLen))
        mi == Atoi(SubSeq(afterH, 2, 3))
        se == Atoi(SubSeq(afterH, 5, 6))
    IN IF ~dateShape THEN bad
       ELSE IF ~timeShape THEN bad
       ELSE IF rest # ".GMT" THEN bad
       ELSE IF mo < 1 \/ mo > 12 \/ h >= 24 \/ mi >= 60 \/ se >= 60 THEN bad
       ELSE IF d < 1 \/ d > DaysIn(mo, y) THEN bad
       ELSE [ok |-> TRUE,
             t |-> [year |-> y, month |-> mo, day |-> d, hour |-> h, min |-> mi, sec |-> se,
                    nsec |-> IF hasFrac THEN Atoi(fracDigits) * Pow10(9 - Len(fracDigits)) ELSE 0]]

-----------------------------------------------------------------------------
(* pkg/splunk: SearchResult accessors, AlertDetails *)

\* SearchResult.string(field)
string(a, field) ==
    IF field \notin DOMAIN a THEN "" ELSE Sprint(a[field])

\* does SearchResult.slice(field) panic: e.(string) on an element that is not a string
slicePanics(a, field) ==
    /\ field \in DOMAIN a
    /\ a[field].kind = "[]interface{}"
    /\ \E k \in 1..Len(a[field].v) : a[field].v[k].kind # "string"

\* slice() without the case of a scalar string
sliceListsOnly(a, field) ==
    IF field \notin DOMAIN a THEN <<>>
    ELSE LET i == a[field]
         IN CASE i.kind = "[]string" -> i.v
              [] i.kind = "[]interface{}" -> [k \in 1..Len(i.v) |-> i.v[k].v]
              [] OTHER -> <<>>

\* SearchResult.slice(field), when it does not panic
slice(a, field) ==
    IF field \notin DOMAIN a THEN <<>>
    ELSE LET i == a[field]
         IN CASE i.kind = "string" -> <<i.v>>
              [] i.kind = "[]string" -> i.v
              [] i.kind = "[]interface{}" -> [k \in 1..Len(i.v) |-> i.v[k].v]
              [] OTHER -> <<>>

\* SearchResult.time(field)
time(a, field) ==
    LET s == string(a, field)
    IN IF s # "" /\ ParseSplunkTime(s).ok THEN ParseSplunkTime(s).t ELSE ZeroTime

\* Valid() without the check of the group
ValidIgnoringGroup(a) ==
    a.AlertName # "" /\ a.User # "" /\ Len(a.ClusterIDs) > 0

\* AlertDetails.Valid()
Valid(a) ==
    a.AlertName # "" /\ a.User # "" /\ a.Group # "" /\ Len(a.ClusterIDs) > 0

\* AlertDetails.Body()
Body(a) ==
    a.User \o " - " \o a.AlertName \o "\n\n" \o a.ClusterText \o "\n\n"
        \o a.ElevatedSummaryText \o "\n\n" \o a.ReasonsText

\* does NewAlertDetails(result) panic
NewAlertDetailsPanics(result) ==
    \E f \in {"clusterid", "elevated_summary", "reason"} : slicePanics(result, f)

\* NewAlertDetails(result), when it does not panic
NewAlertDetails(result) ==
    [AlertName |-> string(result, "alertname"),
     User |-> string(result, "username"),
     Group |-> string(result, "group"),
     Timestamp |-> time(result, "timestamp"),
     ClusterIDs |-> slice(result, "clusterid"),
     ClusterText |-> string(result, "cluster_text"),
     ElevatedSummary |-> slice(result, "elevated_summary"),
     ElevatedSummaryText |-> string(result, "elevated_summary_text"),
     Reasons |-> slice(result, "reason"),
     ReasonsText |-> string(result, "reason_text")]

\* does Alert.Details() panic on these results
DetailsPanics(rs) ==
    \E k \in 1..Len(rs) : NewAlertDetailsPanics(rs[k])

\* Details() that keeps every normalized record, valid or not
DetailsKeepsInvalid(rs) == [k \in 1..Len(rs) |-> NewAlertDetails(rs[k])]

RECURSIVE DetailsReversed(_)
\* Details() that prepends each valid alert instead of appending it
DetailsReversed(rs) ==
    IF Len(rs) = 0 THEN <<>>
    ELSE LET alert == NewAlertDetails(Head(rs))
         IN IF Valid(alert) THEN DetailsReversed(Tail(rs)) \o <<alert>>
            ELSE DetailsReversed(Tail(rs))

RECURSIVE Details(_)
\* Alert.Details(): the valid AlertDetails of w.SearchResults.Results, in order
Details(rs) ==
    IF Len(rs) = 0 THEN <<>>
    ELSE LET alert == NewAlertDetails(Head(rs))
         IN IF Valid(alert) THEN <<alert>> \o Details(Tail(rs))
            ELSE Details(Tail(rs))

-----------------------------------------------------------------------------
(* pkg/jira: constants, tracker responses *)

managedLabel == "compliance-audit-router/managed"
sreLabelKey == "compliance-audit-router/sre"
managerLabelKey == "compliance-audit-router/manager"
\* fmt.Sprintf(sreLabel, id), sreLabel = sreLabelKey + ":%v"
sreLabel(id) == sreLabelKey \o ":" \o id
\* fmt.Sprintf(managerLabel, id), managerLabel = managerLabelKey + ":%v"
managerLabel(id) == managerLabelKey \o ":" \o id
unknownUser == "unknown"
initialTransitionKey == "initial"
sreTransitionKey == "sre"
managerTransitionKey == "manager"

\* config.AppConfig.JiraConfig.Transitions
Transitions ==
    [initial |-> "Pending Justification", sre |-> "Pending Approval", manager |-> "Approved"]

\* account ids known to the tracker
AccountIds == {"acc-1", "acc-2"}

\* what userService.Find can answer: an error, or a list of users
FindResults ==
    {[err |-> TRUE, users |-> <<>>], [err |-> FALSE, users |-> <<>>],
     [err |-> FALSE, users |-> <<"acc-1", "acc-2">>]}
        \cup {[err |-> FALSE, users |-> <<u>>] : u \in AccountIds}

\* the answers to the search for the SRE: the SRE's account is acc-1
SreFindResults == {f \in FindResults : f.users \in {<<>>, <<"acc-1">>, <<"acc-1", "acc-2">>}}
\* the answers to the search for the manager
ManagerFindResults == {f \in FindResults : f.err \/ f.users # <<>>}

\* what issueService.GetTransitions can answer: an error, or a list of transitions
TransitionLists ==
    {<<[ID |-> "11", Name |-> "Pending Justification"], [ID |-> "21", Name |-> "Pending Approval"],
       [ID |-> "31", Name |-> "Approved"]>>,
     <<[ID |-> "22", Name |-> "Approved"], [ID |-> "12", Name |-> "Pending Justification"],
       [ID |-> "13", Name |-> "Pending Justification"], [ID |-> "32", Name |-> "Pending Approval"],
       [ID |-> "33", Name |-> "Approved"]>>,
     <<[ID |-> "41", Name |-> "Closed"]>>}

TransitionResults ==
    {[err |-> TRUE, list |-> <<>>]} \cup {[err |-> FALSE, list |-> l] : l \in TransitionLists}

\* FirstNamed() that takes the first transition whatever its name
FirstOfList(list, status) == IF Len(list) = 0 THEN "" ELSE list[1].ID

\* FirstNamed() that takes the last transition of that name
LastNamed(list, status) ==
    LET hits == {k \in 1..Len(list) : list[k].Name = status}
    IN IF hits = {} THEN ""
       ELSE list[CHOOSE k \in hits : \A j \in hits : k >= j].ID

\* id of the first transition of list named status; "" if there is none
FirstNamed(list, status) ==
    LET hits == {k \in 1..Len(list) : list[k].Name = status}
    IN IF hits = {} THEN ""
       ELSE list[CHOOSE k \in hits : \A j \in hits : k <= j].ID

\* name of the transition of list with the given id; "" if there is none
NameOfId(list, id) ==
    LET hits == {k \in 1..Len(list) : list[k].ID = id}
    IN IF hits = {} THEN ""
       ELSE list[CHOOSE k \in hits : \A j \in hits : k <= j].Name

\* a tracker call as it is recorded: the operation, the issue it is about
\* (0: none), its argument and whether the tracker answered without error
Call(op, issue, arg, ok) == [op |-> op, issue |-> issue, arg |-> arg, ok |-> ok, name |-> ""]

\* a DoTransition call: name is the name the tracker has for the transition id
Transit(issue, id, ok, list) ==
    [op |-> "DoTransition", issue |-> issue, arg |-> id, ok |-> ok, name |-> NameOfId(list, id)]

\* a userService.Find call: name is the list of the account ids found
Found(username, answer) ==
    [op |-> "Find", issue |-> 0, arg |-> username, ok |-> ~answer.err, name |-> Join(answer.users, ",")]

MutatingOps == {"Create", "AddComment", "DoTransition"}

\* what one run of CreateTicket gets from the tracker
CreateOracles ==
    LET def == [self |-> TRUE, sre |-> [err |-> TRUE, users |-> <<>>],
                mgr |-> [err |-> TRUE, users |-> <<>>], create |-> FALSE,
                comment |-> FALSE, trans |-> [err |-> TRUE, list |-> <<>>], doTrans |-> FALSE]
        found == {[def EXCEPT !.sre = a, !.mgr = b] : a \in SreFindResults, b \in ManagerFindResults}
        created == {[o EXCEPT !.create = TRUE] : o \in found}
        commented == {[o EXCEPT !.comment = TRUE] : o \in created}
        listed == {[o EXCEPT !.trans = t, !.doTrans = d] :
                      o \in commented, t \in TransitionResults \ {def.trans}, d \in BOOLEAN}
    IN {[def EXCEPT !.self = FALSE]} \cup found \cup created \cup commented \cup listed

\* the answers that differ on a tracker that takes no more issues
CreateOraclesFor(c, iss) ==
    IF c.DryRun THEN {o \in CreateOracles : ~o.create}
    ELSE IF Len(iss) >= MaxIssues THEN {o \in CreateOracles : ~o.create}
    ELSE CreateOracles

\* what one run of HandleUpdate gets from the tracker
UpdateOracles ==
    {[get |-> g, trans |-> [err |-> TRUE, list |-> <<>>], doTrans |-> FALSE] : g \in BOOLEAN}
        \cup {[get |-> TRUE, trans |-> [err |-> FALSE, list |-> l], doTrans |-> d] :
                  l \in TransitionLists, d \in BOOLEAN}

-----------------------------------------------------------------------------
(* pkg/jira: getUserByName, getTransitionId, CreateTicket, HandleUpdate *)

\* getUserByName() that takes the first user when the search finds several
getUserByNameFirst(found) ==
    IF found.err \/ Len(found.users) = 0 THEN [err |-> TRUE, AccountID |-> ""]
    ELSE [err |-> FALSE, AccountID |-> found.users[1]]

\* getUserByName(userService, username) given the answer of userService.Find:
\* the account id of the single user found, or an error
getUserByName(found) ==
    IF found.err THEN [err |-> TRUE, AccountID |-> ""]
    ELSE IF Len(found.users) # 1 THEN [err |-> TRUE, AccountID |-> ""]
    ELSE [err |-> FALSE, AccountID |-> found.users[1]]

\* getTransitionId() without the dry-run branch
getTransitionIdLive(dryRun, issueId, status, answer) ==
    IF answer.err
    THEN [err |-> TRUE, id |-> "", calls |-> <<Call("GetTransitions", issueId, "", FALSE)>>]
    ELSE [err |-> \A k \in 1..Len(answer.list) : answer.list[k].Name # status,
          id |-> FirstNamed(answer.list, status),
          calls |-> <<Call("GetTransitions", issueId, "", TRUE)>>]

\* getTransitionId(issueService, issueId, status) given the answer of
\* issueService.GetTransitions: [err, id, calls]
getTransitionId(dryRun, issueId, status, answer) ==
    IF dryRun THEN [err |-> FALSE, id |-> "dry-run-transition-id", calls |-> <<>>]
    ELSE IF answer.err
    THEN [err |-> TRUE, id |-> "", calls |-> <<Call("GetTransitions", issueId, "", FALSE)>>]
    ELSE [err |-> \A k \in 1..Len(answer.list) : answer.list[k].Name # status,
          id |-> FirstNamed(answer.list, status),
          calls |-> <<Call("GetTransitions", issueId, "", TRUE)>>]

\* the issue with id n after a change to one of its fields
WithIssue(iss, n, field, value) ==
    [k \in 1..Len(iss) |-> IF k = n THEN [iss[k] EXCEPT ![field] = value] ELSE iss[k]]

\* the issue built with the labels whatever the SRE's account is
NewIssueAlwaysLabelled(sreUser, managerUser) ==
    [Assignee |-> IF sreUser # unknownUser THEN <<sreUser>> ELSE <<>>,
     Labels |-> <<managedLabel, sreLabel(sreUser), managerLabel(managerUser)>>]

\* the jira.Issue CreateTicket builds: its assignee and its labels
NewIssue(sreUser, managerUser) ==
    [Assignee |-> IF sreUser # unknownUser THEN <<sreUser>> ELSE <<>>,
     Labels |-> IF sreUser # unknownUser
                THEN <<managedLabel, sreLabel(sreUser), managerLabel(managerUser)>>
                ELSE <<>>]

\* RenderError() of a template whose failure is skipped
RenderErrorIgnored(c) == ""

\* the error of parsing and executing config.AppConfig.MessageTemplate ("": none)
RenderError(c) ==
    IF c.Template = "parse_fail" THEN "failed to parse message template from AppConfig"
    ELSE IF c.Template = "exec_fail"
    THEN "failed to apply parsed template to the specified data object"
    ELSE ""

\* the mutating calls issued whatever the mode
MutatesAlways(c) == TRUE

\* are the tracker-mutating calls issued: not in dry-run mode
Mutates(c) == ~c.DryRun

\* CreateTicket(userService, issueService, user, manager, description) under
\* configuration c, with the tracker holding the issues iss and answering o:
\* [err, calls, issues, created]
CreateTicket(c, user, manager, description, o, iss) ==
    LET cSelf == <<Call("GetSelf", 0, "", o.self)>>
        sreRes == getUserByName(o.sre)
        sreUser == IF sreRes.err THEN unknownUser ELSE sreRes.AccountID
        mgrRes == getUserByName(o.mgr)
        managerUser == IF mgrRes.err THEN unknownUser ELSE mgrRes.AccountID
        cFind == cSelf \o <<Found(user, o.sre), Found(manager, o.mgr)>>
        jiraIssue == NewIssue(sreUser, managerUser)
        \* createdIssue.ID: "" in dry-run mode
        id == IF Mutates(c) THEN Len(iss) + 1 ELSE 0
        cCreate == IF Mutates(c)
                   THEN cFind \o <<Call("Create", 0, description, o.create)>>
                   ELSE cFind
        iss1 == IF Mutates(c) THEN Append(iss, jiraIssue) ELSE iss
        cComment == IF Mutates(c)
                    THEN cCreate \o <<Call("AddComment", id, "[~accountid:" \o sreUser \o "]", o.comment)>>
                    ELSE cCreate
        initialStatusName == Transitions[initialTransitionKey]
        tr == getTransitionId(c.DryRun, id, initialStatusName, o.trans)
        cTrans == cComment \o tr.calls
        cDo == IF Mutates(c)
               THEN cTrans \o <<Transit(id, tr.id, o.doTrans, o.trans.list)>>
               ELSE cTrans
        ret(e, calls, is, made) == [err |-> e, calls |-> calls, issues |-> is, created |-> made]
    IN IF ~o.self
       THEN ret("failed to get Jira user for reporter", cSelf, iss, <<>>)
       ELSE IF Mutates(c) /\ ~o.create
       THEN ret("failed to create issue", cCreate, iss, <<>>)
       ELSE IF RenderError(c) # ""
       THEN ret(RenderError(c), cCreate, iss1, <<jiraIssue>>)
       ELSE IF Mutates(c) /\ ~o.comment
       THEN ret("issue was successfully created but failed to apply initial comment", cComment,
                iss1, <<jiraIssue>>)
       ELSE IF tr.err
       THEN ret("failed to fetch ID for status", cTrans, iss1, <<jiraIssue>>)
       ELSE IF Mutates(c) /\ ~o.doTrans
       THEN ret("failed to transition issue", cDo, iss1, <<jiraIssue>>)
       ELSE ret("", cDo, iss1, <<jiraIssue>>)

\* LabelId() that takes what follows the last ":" of the label
RECURSIVE LabelIdLastColon(_, _)
LabelIdLastColon(labels, key) ==
    IF Len(labels) = 0 THEN ""
    ELSE LET last == labels[Len(labels)]
             colons == {i \in 1..Len(last) : SubSeq(last, i, i) = ":"}
             at == CHOOSE i \in colons : \A j \in colons : j <= i
         IN IF Contains(last, key)
            THEN (IF colons = {} THEN "" ELSE SubSeq(last, at + 1, Len(last)))
            ELSE LabelIdLastColon(SubSeq(labels, 1, Len(labels) - 1), key)

\* the id recorded by the last label of labels that contains key ("" if none)
RECURSIVE LabelId(_, _)
LabelId(labels, key) ==
    IF Len(labels) = 0 THEN ""
    ELSE LET last == labels[Len(labels)]
         IN IF Contains(last, key) THEN Cut(last, ":").after
            ELSE LabelId(SubSeq(labels, 1, Len(labels) - 1), key)

\* the issue as the webhook event carries it
EmbeddedIssue(webhook, iss) == [Assignee |-> webhook.Assignee, Labels |-> webhook.Labels]

\* the issue issueService.Get(webhook.Issue.ID) returns: the tracker's own
LiveIssue(webhook, iss) == iss[webhook.IssueID]

\* HandleUpdate without its guard
NotFromAssigneeOff(author, assignee) == FALSE

\* the guard of HandleUpdate: the comment is not from the current assignee
NotFromAssignee(author, assignee) == author # assignee

\* SelectTransition() that takes any other assignee for the manager
SelectTransitionDefault(sreId, managerId, author) ==
    IF sreId = author THEN Transitions[sreTransitionKey]
    ELSE Transitions[managerTransitionKey]

\* SelectTransition() with the two role keys exchanged
SelectTransitionSwapped(sreId, managerId, author) ==
    IF sreId = author THEN Transitions[managerTransitionKey]
    ELSE IF managerId = author THEN Transitions[sreTransitionKey]
    ELSE ""

\* the status HandleUpdate looks up for a comment by author
SelectTransition(sreId, managerId, author) ==
    IF sreId = author THEN Transitions[sreTransitionKey]
    ELSE IF managerId = author THEN Transitions[managerTransitionKey]
    ELSE ""

\* HandleUpdate(issueService, webhook) under configuration c, with the tracker
\* holding the issues iss and answering o: [err, panic, calls, issues, status]
HandleUpdate(c, webhook, o, iss) ==
    LET ret(e, p, calls, is) ==
            [err |-> e, panic |-> p, calls |-> calls, issues |-> is, status |-> ""]
        n == webhook.IssueID
        found == o.get /\ n \in 1..Len(iss)
        cGet == <<Call("Get", n, "", found)>>
        webhookIssue == LiveIssue(webhook, iss)
        sreId == LabelId(webhookIssue.Labels, sreLabelKey)
        managerId == LabelId(webhookIssue.Labels, managerLabelKey)
        author == webhook.Author
        transitionName == SelectTransition(sreId, managerId, author)
        tr == getTransitionId(c.DryRun, n, transitionName, o.trans)
        cTrans == cGet \o tr.calls
        cDo == cTrans \o <<Transit(n, tr.id, o.doTrans, o.trans.list)>>
    IN IF c.DryRun THEN ret("", FALSE, <<>>, iss)
       ELSE IF ~found THEN ret("failed to get issue from jira webhook", FALSE, cGet, iss)
       \* webhookIssue.Fields.Assignee is a nil *jira.User on an unassigned issue
       ELSE IF webhookIssue.Assignee = <<>> THEN ret("", TRUE, cGet, iss)
       ELSE IF NotFromAssignee(author, webhookIssue.Assignee[1]) THEN ret("", FALSE, cGet, iss)
       ELSE IF tr.err
       THEN [ret("failed to get transition ID for status", FALSE, cTrans, iss)
                EXCEPT !.status = transitionName]
       ELSE IF ~o.doTrans
       THEN [ret("failed to transition issue", FALSE, cDo, iss) EXCEPT !.status = transitionName]
       ELSE [ret("", FALSE, cDo, iss) EXCEPT !.status = transitionName]

-----------------------------------------------------------------------------
(* Normalizer harness: NewAlertDetails applied to one raw search result *)

\* a raw result: each field absent or holding one of the given values
RawOf(an, un, gr, ts, cl, rs) ==
    LET fields == {f \in {"alertname", "username", "group", "timestamp", "clusterid", "reason"} :
                      CASE f = "alertname" -> an # <<>>
                        [] f = "username" -> un # <<>>
                        [] f = "group" -> gr # <<>>
                        [] f = "timestamp" -> ts # <<>>
                        [] f = "clusterid" -> cl # <<>>
                        [] OTHER -> rs # <<>>}
    IN [f \in fields |->
            CASE f = "alertname" -> an[1]
              [] f = "username" -> un[1]
              [] f = "group" -> gr[1]
              [] f = "timestamp" -> ts[1]
              [] f = "clusterid" -> cl[1]
              [] OTHER -> rs[1]]

\* <<>> stands for "field absent", <<v>> for "field present with value v"
AlertNameInputs == {<<>>, <<VStr("")>>, <<VStr("testAlertname")>>, <<VNum(42)>>}
UserInputs == {<<>>, <<VStr("")>>, <<VStr("alice")>>}
GroupInputs == {<<>>, <<VStr("testGroup")>>, <<VNil>>}
TimestampInputs ==
    {<<>>, <<VStr("")>>, <<VStr("2021-01-01T00:00:00.GMT")>>, <<VStr("testAlertname")>>,
     <<VBool(TRUE)>>, <<VStr("2021-01-01T5:04:05.GMT")>>, <<VStr("2021-01-01T00:00:00.5.GMT")>>,
     <<VStr("2021-02-30T00:00:00.GMT")>>}
ClusterInputs ==
    {<<>>, <<VStr("c1")>>, <<VStrs(<<"c1", "c2">>)>>, <<VStrs(<<>>)>>,
     <<VList(<<VStr("c2"), VStr("c1")>>)>>, <<VList(<<VStr("c1"), VNum(7)>>)>>,
     <<VNum(7)>>, <<VNil>>}
ReasonInputs == {<<>>, <<VStrs(<<"r1">>)>>, <<VList(<<VNil>>)>>}

\* the counters of pkg/metrics the handlers' accounts of events and issues are
\* read from, each at 0: no request has incremented its series
NoMetrics == [EventsFound |-> 0, EventsProcessed |-> 0, JiraIssueCreated |-> 0]

\* metrics.<counter>.With(p.LabelInput()).Inc()
Inc(m, counter) == [m EXCEPT ![counter] = @ + 1]

InitReq ==
    /\ cfg = [DryRun |-> FALSE, LDAPEnabled |-> FALSE, Template |-> "ok"]
    /\ handler = "none"
    /\ pc = "idle"
    /\ results = <<>>
    /\ details = <<>>
    /\ idx = 0
    /\ hlog = <<>>
    /\ tcalls = <<>>
    /\ resp = <<>>
    /\ issues = <<>>
    /\ metrics = NoMetrics

\* the requests net/http serves at the same time, each in its own goroutine
Requests == {"A", "B"}

\* no request is running and the logger has its initial, empty prefix
InitLogger ==
    /\ prefix = ""
    /\ rpc = [r \in Requests |-> "idle"]
    /\ loglines = <<>>

\* no configuration is under validation
InitNoConfig ==
    /\ conf = [LDAPHost |-> "", SplunkHost |-> "", JiraHost |-> ""]
    /\ vpc = "off"
    /\ verrs = <<>>

\* no correlation label is under test
InitNoLabels ==
    /\ lpc = "off"
    /\ written = [sre |-> "", manager |-> ""]
    /\ labelled = [Assignee |-> <<>>, Labels |-> <<>>]
    /\ parsed = [sreId |-> "", managerId |-> ""]

\* no settings are read
InitNoSettings ==
    /\ spc = "off"
    /\ settings = <<>>
    /\ printed = <<>>

InitNorm ==
    /\ npc = "in"
    /\ \E an \in AlertNameInputs, un \in UserInputs, gr \in GroupInputs,
          ts \in TimestampInputs, cl \in ClusterInputs, rs \in ReasonInputs :
            raw = RawOf(an, un, gr, ts, cl, rs)
    /\ out = NewAlertDetails(<<>>)
    /\ valid = FALSE
    /\ InitReq
    /\ InitLogger
    /\ InitNoConfig
    /\ InitNoLabels
    /\ InitNoSettings

\* NewAlertDetails(raw) returns; the caller (Alert.Details) evaluates Valid()
Normalize ==
    /\ npc = "in"
    /\ ~NewAlertDetailsPanics(raw)
    /\ npc' = "out"
    /\ out' = NewAlertDetails(raw)
    /\ valid' = Valid(NewAlertDetails(raw))
    /\ UNCHANGED <<metrics, raw, cfg, handler, pc, results, details, idx, hlog, tcalls, resp, issues, logVars, cfgVars, lblVars, setVars>>

\* NewAlertDetails(raw) panics in SearchResult.slice
NormalizePanic ==
    /\ npc = "in"
    /\ NewAlertDetailsPanics(raw)
    /\ npc' = "panic"
    /\ UNCHANGED <<metrics, raw, out, valid, cfg, handler, pc, results, details, idx, hlog, tcalls, resp, issues, logVars, cfgVars, lblVars, setVars>>

NextNorm == Normalize \/ NormalizePanic

SpecNorm == InitNorm /\ [][NextNorm]_vars

-----------------------------------------------------------------------------
(* pkg/listeners: setResponse, ProcessAlertHandler, ProcessJiraWebhook *)

genericErrorMsg == "The request could not be completed. Please contact the system administrator."

StatusOK == 200
StatusNoContent == 204
StatusInternalServerError == 500

\* setResponse(w, status, info): the status code and body written
setResponse(code, msg) ==
    [code |-> code,
     body |-> IF code = StatusOK THEN "ok"
              ELSE IF code = StatusInternalServerError THEN genericErrorMsg
              ELSE IF msg # <<>> THEN Join(msg, ", ")
              ELSE genericErrorMsg]

status500 == setResponse(StatusInternalServerError, <<>>)
status200 == setResponse(StatusOK, <<>>)

\* outcomes of helpers.DecodeJSONRequestBody: nil, a *MalformedRequest, another error
DecodeOutcomes ==
    {[kind |-> "ok", Status |-> 0, Msg |-> ""],
     [kind |-> "malformed", Status |-> 400, Msg |-> "Request body contains badly-formed JSON"],
     [kind |-> "malformed", Status |-> 415, Msg |-> "Content-Type header is not application/json"],
     [kind |-> "error", Status |-> 0, Msg |-> "http: request body too large"]}

\* outcomes of ldap.LookupUser(username): user, manager, error
LookupOutcomes(username) ==
    {[err |-> TRUE, user |-> "", manager |-> ""],
     [err |-> FALSE, user |-> username, manager |-> "carol"]}

\* a step of a handler as it is recorded: the call, the compliance event (for
\* HandleUpdate: the issue) it is for (0: none), the user and manager passed
\* (for HandleUpdate: the comment author and the assignee of the copy of the
\* issue the event carries), the description passed (for
\* HandleUpdate: the status name it looked up) and whether the call returned
\* without error.  For DecodeJSONRequestBody k and desc are the Status and Msg
\* of the *MalformedRequest returned (0: the error is not one) and the text of
\* the error.
Step(op, k, user, manager, desc, ok) ==
    [op |-> op, k |-> k, user |-> user, manager |-> manager, desc |-> desc, ok |-> ok]

\* the raw records a search can return
RawAlert(user) ==
    RawOf(<<VStr("testAlertname")>>, <<VStr(user)>>, <<VStr("testGroup")>>,
          <<VStr("2021-01-01T00:00:00.GMT")>>, <<VList(<<VStr("c1")>>)>>, <<VStr("r1")>>)
RawNoCluster == RawOf(<<VStr("testAlertname")>>, <<VStr("dave")>>, <<VStr("testGroup")>>, <<>>, <<>>, <<>>)
RawBadList ==
    RawOf(<<VStr("testAlertname")>>, <<VStr("erin")>>, <<VStr("testGroup")>>, <<>>,
          <<VList(<<VStr("c1"), VNum(7)>>)>>, <<>>)
ResultPool == {RawAlert("alice"), RawAlert("bob"), RawNoCluster, RawBadList}

RECURSIVE SeqsUpTo(_, _)
\* the sequences over S of length at most n
SeqsUpTo(S, n) ==
    IF n = 0 THEN {<<>>}
    ELSE LET shorter == SeqsUpTo(S, n - 1)
         IN shorter \cup {Append(q, x) : q \in {r \in shorter : Len(r) = n - 1}, x \in S}

ResultSets == SeqsUpTo(ResultPool, MaxResults)

\* NewAlertDetails of every record of the pool
Normalized == [r \in ResultPool |-> NewAlertDetails(r)]

\* Alert.Details() on every result set: does it panic, and what it returns
DetailsOf ==
    [rs \in ResultSets |->
        [panics |-> DetailsPanics(rs), details |-> IF DetailsPanics(rs) THEN <<>> ELSE Details(rs)]]

DiagSearchText ==
    "A Compliance Alert was received from Splunk, but the alert details could not be retrieved. "
DiagLDAPText(event) ==
    "A Compliance Alert was received from Splunk, but the user details could not be retrieved from LDAP."
        \o event.User

\* DiagOutcome() that returns without a response when the ticket was not filed
DiagOutcomeSilent(t) == IF t.err # "" THEN <<>> ELSE <<status500>>

\* what ProcessAlertHandler answers after the diagnostic ticket, filed (t.err = "") or not
DiagOutcome(t) == <<status500>>

\* LookupFailure() that goes on with the next event after the diagnostic ticket
LookupFailureContinue(t) == [pc |-> "loop", resp |-> <<>>]

\* what ProcessAlertHandler does after the diagnostic ticket for a failed LDAP
\* lookup: it answers and returns
LookupFailure(t) == [pc |-> "done", resp |-> DiagOutcome(t)]

\* EventOutcome() that goes on with the next event after a failed creation
EventOutcomeContinue(t) == [pc |-> "loop", resp |-> <<>>, issues |-> t.issues]

\* EventOutcome() that removes the issues of the tracker after a failed creation
EventOutcomeRollback(t) ==
    IF t.err # "" THEN [pc |-> "done", resp |-> <<status500>>, issues |-> <<>>]
    ELSE [pc |-> "loop", resp |-> <<>>, issues |-> t.issues]

\* what ProcessAlertHandler does after the CreateTicket for a compliance
\* event: it answers 500 and returns on an error and goes on otherwise; the
\* tracker is left as CreateTicket has left it
EventOutcome(t) ==
    IF t.err # "" THEN [pc |-> "done", resp |-> <<status500>>, issues |-> t.issues]
    ELSE [pc |-> "loop", resp |-> <<>>, issues |-> t.issues]

\* the decode step as it is recorded
Decoded(d) ==
    Step("DecodeJSONRequestBody", d.Status, "", "", IF d.kind = "ok" THEN "" ELSE d.Msg, d.kind = "ok")

\* the answer to a failed decode that sends the text of any error with its status
DecodeFailureLeaky(d) ==
    [code |-> IF d.kind = "malformed" THEN d.Status ELSE StatusInternalServerError, body |-> d.Msg]

\* the answer to a failed decode that does not tell a malformed request apart
DecodeFailureAlways500(d) == status500

\* what ProcessAlertHandler answers when the decode has failed with d
DecodeFailure(d) ==
    IF d.kind = "malformed" THEN setResponse(d.Status, <<d.Msg>>) ELSE status500

\* the directory lookup made whatever the configuration
LookupAlways(c) == TRUE

\* is ldap.LookupUser called: config.AppConfig.LDAPConfig.Enabled
LookupEnabled(c) == c.LDAPEnabled

\* a request is accepted when no request is running
Idle == pc = "idle"

\* ProcessAlertHandler: the request body is decoded
AlertDecode ==
    /\ Idle
    /\ \E d \in DecodeOutcomes :
        /\ hlog' = <<Decoded(d)>>
        /\ IF d.kind = "ok" THEN pc' = "decoded" /\ resp' = <<>>
           ELSE pc' = "done" /\ resp' = <<DecodeFailure(d)>>
    /\ handler' = "alert"
    /\ results' = <<>>
    /\ details' = <<>>
    /\ idx' = 0
    /\ tcalls' = <<>>
    /\ metrics' = NoMetrics
    /\ UNCHANGED <<cfg, issues, npc, raw, out, valid, logVars, cfgVars, lblVars, setVars>>

\* ProcessAlertHandler: jira.DefaultClient()
AlertClient ==
    /\ handler = "alert" /\ pc = "decoded"
    /\ \E ok \in BOOLEAN :
        /\ hlog' = Append(hlog, Step("DefaultClient", 0, "", "", "", ok))
        /\ IF ok THEN pc' = "client" /\ resp' = resp
           ELSE pc' = "done" /\ resp' = Append(resp, status500)
    /\ UNCHANGED <<metrics, cfg, handler, results, details, idx, tcalls, issues, npc, raw, out, valid, logVars, cfgVars, lblVars, setVars>>

\* ProcessAlertHandler: RetrieveSearchFromAlert fails, a diagnostic ticket is filed
AlertSearchFailed ==
    /\ handler = "alert" /\ pc = "client"
    /\ \E o \in CreateOraclesFor(cfg, issues) :
        LET t == CreateTicket(cfg, "", "", DiagSearchText, o, issues)
        IN /\ hlog' = hlog \o <<Step("RetrieveSearchFromAlert", 0, "", "", "", FALSE),
                                Step("CreateTicket", 0, "", "", DiagSearchText, t.err = "")>>
           /\ tcalls' = t.calls
           /\ issues' = t.issues
           /\ resp' = resp \o DiagOutcome(t)
           /\ pc' = "done"
    /\ UNCHANGED <<metrics, cfg, handler, results, details, idx, npc, raw, out, valid, logVars, cfgVars, lblVars, setVars>>

\* ProcessAlertHandler: RetrieveSearchFromAlert returns the results; it logs
\* alert.Details(), which panics on a list element that is not a string
AlertSearch ==
    /\ handler = "alert" /\ pc = "client"
    /\ \E rs \in ResultSets :
        /\ results' = rs
        /\ IF DetailsOf[rs].panics
           THEN /\ pc' = "panic"
                /\ hlog' = Append(hlog, Step("RetrieveSearchFromAlert", 0, "", "", "panic", FALSE))
                /\ details' = details
           ELSE /\ pc' = "loop"
                /\ hlog' = Append(hlog, Step("RetrieveSearchFromAlert", 0, "", "", "", TRUE))
                /\ details' = DetailsOf[rs].details
    /\ UNCHANGED <<metrics, cfg, handler, idx, tcalls, resp, issues, npc, raw, out, valid, logVars, cfgVars, lblVars, setVars>>

\* ProcessAlertHandler: the loop body for the next compliance event
AlertEvent ==
    /\ handler = "alert" /\ pc = "loop" /\ idx < Len(details)
    /\ LET k == idx + 1
           complianceEvent == details[k]
       IN \E l \in LookupOutcomes(complianceEvent.User), o \in CreateOraclesFor(cfg, issues) :
            IF LookupEnabled(cfg) /\ l.err
            THEN LET ticketDetails == DiagLDAPText(complianceEvent)
                     t == CreateTicket(cfg, "", "", ticketDetails, o, issues)
                 IN /\ hlog' = hlog \o <<Step("LookupUser", k, complianceEvent.User, "", "", FALSE),
                                         Step("CreateTicket", 0, "", "", ticketDetails, t.err = "")>>
                    /\ tcalls' = t.calls
                    /\ issues' = t.issues
                    /\ resp' = resp \o LookupFailure(t).resp
                    /\ pc' = LookupFailure(t).pc
                    /\ idx' = k
            ELSE LET user == IF LookupEnabled(cfg) THEN l.user ELSE complianceEvent.User
                     manager == IF LookupEnabled(cfg) THEN l.manager ELSE ""
                     t == CreateTicket(cfg, user, manager, Body(complianceEvent), o, issues)
                     looked == IF LookupEnabled(cfg)
                               THEN <<Step("LookupUser", k, complianceEvent.User, "", "", TRUE)>>
                               ELSE <<>>
                 IN /\ hlog' = hlog \o looked
                                    \o <<Step("CreateTicket", k, user, manager, Body(complianceEvent),
                                              t.err = "")>>
                    /\ tcalls' = t.calls
                    /\ issues' = EventOutcome(t).issues
                    /\ idx' = k
                    /\ pc' = EventOutcome(t).pc
                    /\ resp' = resp \o EventOutcome(t).resp
    /\ metrics' = Inc(metrics, "EventsFound")
    /\ UNCHANGED <<cfg, handler, results, details, npc, raw, out, valid, logVars, cfgVars, lblVars, setVars>>

\* ProcessAlertHandler: every compliance event is handled
AlertFinish ==
    /\ handler = "alert" /\ pc = "loop" /\ idx = Len(details)
    /\ resp' = Append(resp, status200)
    /\ pc' = "done"
    /\ metrics' = Inc(metrics, "EventsProcessed")
    /\ UNCHANGED <<cfg, handler, results, details, idx, hlog, tcalls, issues, npc, raw, out, valid, logVars, cfgVars, lblVars, setVars>>

\* the Jira webhooks received: the issue id and the comment author; the issue
\* copy carried by the event has its own labels and assignee. AccountID is ""
\* for a user the tracker gives no "accountId" for
AuthorIds == AccountIds \cup {"acc-3", ""}
Webhooks ==
    [IssueID : 1..MaxIssues, Author : AuthorIds, Labels : {<<>>}, Assignee : {<<>>}]
        \cup [IssueID : 1..MaxIssues, Author : AuthorIds,
              Labels : {<<sreLabel("acc-3")>>}, Assignee : {<<"acc-3">>}]

\* ProcessJiraWebhook, the whole handler
JiraWebhook ==
    /\ Idle
    /\ \E d \in DecodeOutcomes :
        LET decoded == Decoded(d)
            keep == tcalls' = <<>> /\ issues' = issues
        IN IF d.kind = "malformed"
           THEN /\ hlog' = <<decoded>>
                /\ resp' = <<setResponse(d.Status, <<d.Msg>>)>>
                /\ pc' = "done" /\ keep
           ELSE IF d.kind = "error"
           THEN /\ hlog' = <<decoded>>
                /\ resp' = <<setResponse(StatusInternalServerError, <<genericErrorMsg>>)>>
                /\ pc' = "done" /\ keep
           \* no return after the 500: client is nil and client.Issue panics
           ELSE \/ /\ hlog' = <<decoded, Step("DefaultClient", 0, "", "", "", FALSE)>>
                   /\ resp' = <<status500>>
                   /\ pc' = "panic" /\ keep
                \/ \E webhook \in Webhooks, o \in UpdateOracles :
                    LET u == HandleUpdate(cfg, webhook, o, issues)
                    IN /\ hlog' = <<decoded, Step("DefaultClient", 0, "", "", "", TRUE),
                                    Step("HandleUpdate", webhook.IssueID, webhook.Author,
                                         Join(webhook.Assignee, ","), u.status,
                                         u.err = "" /\ ~u.panic)>>
                       /\ tcalls' = u.calls
                       /\ issues' = u.issues
                       /\ IF u.panic THEN pc' = "panic" /\ resp' = <<>>
                          ELSE IF u.err # "" THEN pc' = "done" /\ resp' = <<status500>>
                          ELSE pc' = "done" /\ resp' = <<[code |-> StatusNoContent, body |-> ""]>>
    /\ handler' = "jira"
    /\ results' = <<>>
    /\ details' = <<>>
    /\ idx' = 0
    /\ metrics' = NoMetrics
    /\ UNCHANGED <<cfg, npc, raw, out, valid, logVars, cfgVars, lblVars, setVars>>

\* the handler has returned (or net/http has recovered its panic): the
\* request's locals are gone
RequestEnd ==
    /\ pc \in {"done", "panic"}
    /\ pc' = "idle"
    /\ handler' = "none"
    /\ results' = <<>>
    /\ details' = <<>>
    /\ idx' = 0
    /\ hlog' = <<>>
    /\ tcalls' = <<>>
    /\ resp' = <<>>
    /\ metrics' = NoMetrics
    /\ UNCHANGED <<cfg, issues, npc, raw, out, valid, logVars, cfgVars, lblVars, setVars>>

\* the tracker's side: an issue is assigned to another account, or to nobody
TrackerAssign ==
    /\ Idle
    /\ \E n \in 1..Len(issues), a \in {<<>>} \cup {<<u>> : u \in AccountIds \cup {""}} :
        /\ a # issues[n].Assignee
        /\ issues' = WithIssue(issues, n, "Assignee", a)
    /\ UNCHANGED <<metrics, cfg, handler, pc, results, details, idx, hlog, tcalls, resp, npc, raw, out, valid, logVars, cfgVars, lblVars, setVars>>

Init ==
    /\ npc = "off"
    /\ raw = <<>>
    /\ out = NewAlertDetails(<<>>)
    /\ valid = FALSE
    /\ cfg \in [DryRun : BOOLEAN, LDAPEnabled : BOOLEAN, Template : {"ok", "exec_fail"}]
    /\ handler = "none"
    /\ pc = "idle"
    /\ results = <<>>
    /\ details = <<>>
    /\ idx = 0
    /\ hlog = <<>>
    /\ tcalls = <<>>
    /\ resp = <<>>
    /\ issues = <<>>
    /\ metrics = NoMetrics
    /\ InitLogger
    /\ InitNoConfig
    /\ InitNoLabels
    /\ InitNoSettings

Next ==
    \/ AlertDecode
    \/ AlertClient
    \/ AlertSearchFailed
    \/ AlertSearch
    \/ AlertEvent
    \/ AlertFinish
    \/ JiraWebhook
    \/ RequestEnd
    \/ TrackerAssign

Spec == Init /\ [][Next]_vars

-----------------------------------------------------------------------------
(* Concurrent ProcessAlertHandler requests and the standard logger *)

\* p.uuid of the request: uuid.New().String()
Uuid(r) == "uuid-" \o r

\* ProcessAlertHandler is entered: log.SetPrefix(p.uuid + " ")
AlertEnter(r) ==
    /\ rpc[r] = "idle"
    /\ rpc' = [rpc EXCEPT ![r] = "running"]
    /\ prefix' = Uuid(r) \o " "
    /\ UNCHANGED <<loglines, normVars, reqVars, cfgVars, lblVars, setVars>>

\* the running handler writes a line with log.Printf / log.Println: the
\* standard logger puts its current prefix in front
AlertLog(r) ==
    /\ rpc[r] = "running"
    /\ Len(loglines) < MaxLogLines
    /\ loglines' = Append(loglines, [req |-> r, prefix |-> prefix])
    /\ UNCHANGED <<prefix, rpc, normVars, reqVars, cfgVars, lblVars, setVars>>

\* ProcessAlertHandler returns: the deferred log.SetPrefix("")
AlertReturn(r) ==
    /\ rpc[r] = "running"
    /\ rpc' = [rpc EXCEPT ![r] = "idle"]
    /\ prefix' = ""
    /\ UNCHANGED <<loglines, normVars, reqVars, cfgVars, lblVars, setVars>>

InitLog ==
    /\ npc = "off"
    /\ raw = <<>>
    /\ out = NewAlertDetails(<<>>)
    /\ valid = FALSE
    /\ InitReq
    /\ InitLogger
    /\ InitNoConfig
    /\ InitNoLabels
    /\ InitNoSettings

NextLog == \E r \in Requests : AlertEnter(r) \/ AlertLog(r) \/ AlertReturn(r)

SpecLog == InitLog /\ [][NextLog]_vars

-----------------------------------------------------------------------------
(* pkg/config: url.Parse as hostFieldsAreParsable uses it, and the validation *)

Lower == "abcdefghijklmnopqrstuvwxyz"
Upper == "ABCDEFGHIJKLMNOPQRSTUVWXYZ"

\* strings.HasPrefix(s, p)
HasPrefix(s, p) == Len(s) >= Len(p) /\ SubSeq(s, 1, Len(p)) = p

\* strings.LastIndex(s, sub): 1-based position of the last occurrence, 0 if none
LastIndex(s, sub) ==
    LET hits == {i \in 1..(Len(s) - Len(sub) + 1) : SubSeq(s, i, i + Len(sub) - 1) = sub}
    IN IF hits = {} THEN 0 ELSE CHOOSE i \in hits : \A j \in hits : j <= i

\* strings.ToLower(s), built one character at a time from the left
ToLower(s) ==
    LET lc(c) == IF Contains(Upper, c) THEN SubSeq(Lower, Index(Upper, c), Index(Upper, c)) ELSE c
        low[i \in 0..Len(s)] == IF i = 0 THEN "" ELSE low[i - 1] \o lc(SubSeq(s, i, i))
    IN low[Len(s)]

RECURSIVE getScheme(_, _)
\* getScheme(rawURL), scanning from the 1-based position i: [err, scheme, rest]
getScheme(rawURL, i) ==
    IF i > Len(rawURL) THEN [err |-> FALSE, scheme |-> "", rest |-> rawURL]
    ELSE LET c == SubSeq(rawURL, i, i)
         IN IF Contains(Lower, c) \/ Contains(Upper, c) THEN getScheme(rawURL, i + 1)
            ELSE IF Contains(Digits, c) \/ c \in {"+", "-", "."}
            THEN (IF i = 1 THEN [err |-> FALSE, scheme |-> "", rest |-> rawURL]
                  ELSE getScheme(rawURL, i + 1))
            ELSE IF c = ":"
            THEN (IF i = 1 THEN [err |-> TRUE, scheme |-> "", rest |-> ""]
                  ELSE [err |-> FALSE, scheme |-> SubSeq(rawURL, 1, i - 1),
                        rest |-> SubSeq(rawURL, i + 1, Len(rawURL))])
            ELSE [err |-> FALSE, scheme |-> "", rest |-> rawURL]

\* validOptionalPort(port)
validOptionalPort(port) ==
    \/ port = ""
    \/ SubSeq(port, 1, 1) = ":" /\ AllDigits(SubSeq(port, 2, Len(port)))

\* parseHost(host): a port, if any, is ":" followed by digits only
parseHost(host) ==
    [err |-> Contains(host, ":")
                /\ ~validOptionalPort(SubSeq(host, LastIndex(host, ":"), Len(host))),
     Host |-> host]

\* parseAuthority(authority): the host is what follows the last "@"
parseAuthority(authority) ==
    parseHost(SubSeq(authority, LastIndex(authority, "@") + 1, Len(authority)))

\* parse(rawURL, false), once the scheme is split off and the query cut: [err, Scheme, Host]
parseRest(scheme, rest) ==
    IF ~HasPrefix(rest, "/") /\ scheme # ""
    THEN [err |-> FALSE, Scheme |-> scheme, Host |-> ""]
    ELSE IF ~HasPrefix(rest, "/") /\ Contains(Cut(rest, "/").before, ":")
    THEN [err |-> TRUE, Scheme |-> "", Host |-> ""]
    ELSE IF ~((scheme # "" \/ ~HasPrefix(rest, "///")) /\ HasPrefix(rest, "//"))
    THEN [err |-> FALSE, Scheme |-> scheme, Host |-> ""]
    ELSE LET a == parseAuthority(Cut(SubSeq(rest, 3, Len(rest)), "/").before)
         IN [err |-> a.err, Scheme |-> IF a.err THEN "" ELSE scheme,
             Host |-> IF a.err THEN "" ELSE a.Host]

\* url.Parse(rawURL) for a text of letters, digits and the characters + - . : / ? # @
\* (no control character, no "%" escape, no "[" of an IPv6 literal): [err, Scheme, Host]
ParseURL(rawURL) ==
    LET sch == getScheme(Cut(rawURL, "#").before, 1)
    IN IF sch.err THEN [err |-> TRUE, Scheme |-> "", Host |-> ""]
       ELSE parseRest(ToLower(sch.scheme), Cut(sch.rest, "?").before)

\* one turn of the loop of hostFieldsAreParsable, for the setting name with the
\* given value: the errors appended, or the panic of u.Host on the nil *url.URL
\* that url.Parse returns with an error
hostErrors(name, value) ==
    LET u == ParseURL(value)
        who == ToLower(name)
    IN IF value = "" THEN [panic |-> FALSE, errs |-> <<>>]
       ELSE IF u.err
       THEN [panic |-> TRUE, errs |-> <<who \o " failed to parse URL: " \o value>>]
       ELSE [panic |-> FALSE,
             errs |-> (IF u.Host = "" THEN <<who \o " invalid URL: " \o value>> ELSE <<>>)
                        \o (IF u.Scheme \notin {"http", "https", "ldaps"}
                            THEN <<who \o " missing scheme: " \o value>> ELSE <<>>)]

\* hostFieldsAreParsable(a): [panic, errs]
hostFieldsAreParsable(a) ==
    LET l == hostErrors("LDAPConfig.Host", a.LDAPHost)
        sp == hostErrors("SplunkConfig.Host", a.SplunkHost)
        j == hostErrors("JiraConfig.Host", a.JiraHost)
    IN IF l.panic THEN l
       ELSE IF sp.panic THEN [panic |-> TRUE, errs |-> l.errs \o sp.errs]
       ELSE [panic |-> j.panic, errs |-> l.errs \o sp.errs \o j.errs]

\* the host settings a configuration file can give
LDAPHostInputs ==
    {"", "ldaps://ldap.example.org", "ldap://ldap.example.org", "ldap.example.org",
     "ldap.example.org:636", "ldaps://ldap.example.org:636", "10.0.0.1:389", "LDAPS://ldap.example.org"}
SplunkHostInputs ==
    {"", "https://splunk.example.org:8089", "splunk.example.org", "https://",
     "http://splunk.example.org/services"}
JiraHostInputs ==
    {"", "https://jira.example.org", "ftp://jira.example.org", "https://jira.example.org:port"}

InitCfg ==
    /\ conf \in [LDAPHost : LDAPHostInputs, SplunkHost : SplunkHostInputs, JiraHost : JiraHostInputs]
    /\ vpc = "loaded"
    /\ verrs = <<>>
    /\ npc = "off"
    /\ raw = <<>>
    /\ out = NewAlertDetails(<<>>)
    /\ valid = FALSE
    /\ InitReq
    /\ InitLogger
    /\ InitNoLabels
    /\ InitNoSettings

\* Config.Valid() runs hostFieldsAreParsable, which returns its errors
ValidateHosts ==
    /\ vpc = "loaded"
    /\ ~hostFieldsAreParsable(conf).panic
    /\ vpc' = "checked"
    /\ verrs' = hostFieldsAreParsable(conf).errs
    /\ UNCHANGED <<conf, normVars, reqVars, logVars, lblVars, setVars>>

\* hostFieldsAreParsable dereferences the nil URL of a value url.Parse rejects
ValidateHostsPanic ==
    /\ vpc = "loaded"
    /\ hostFieldsAreParsable(conf).panic
    /\ vpc' = "panic"
    /\ UNCHANGED <<conf, verrs, normVars, reqVars, logVars, lblVars, setVars>>

NextCfg == ValidateHosts \/ ValidateHostsPanic

SpecCfg == InitCfg /\ [][NextCfg]_vars

-----------------------------------------------------------------------------
(* Label harness: the labels CreateTicket writes for two account ids, read *)
(* back by the loop of HandleUpdate                                         *)

\* account ids as the tracker gives them out: letters, digits, "-" and ":";
\* "" is the AccountID of a user of a tracker that has none
SreIdInputs ==
    {"", "acc-1", "sre", "manager", "managed", "5b10ac8d82e05b22cc7d4ef5",
     "557058:f58131cb-b67d-43c7", "a:b:c"}
\* the manager's account id, or unknownUser when the manager did not resolve
ManagerIdInputs == SreIdInputs \cup {unknownUser}

InitLbl ==
    /\ lpc = "ids"
    /\ written \in [sre : SreIdInputs, manager : ManagerIdInputs]
    /\ labelled = [Assignee |-> <<>>, Labels |-> <<>>]
    /\ parsed = [sreId |-> "", managerId |-> ""]
    /\ npc = "off"
    /\ raw = <<>>
    /\ out = NewAlertDetails(<<>>)
    /\ valid = FALSE
    /\ InitReq
    /\ InitLogger
    /\ InitNoConfig
    /\ InitNoSettings

\* CreateTicket builds the issue for the resolved SRE and manager
WriteLabels ==
    /\ lpc = "ids"
    /\ labelled' = NewIssue(written.sre, written.manager)
    /\ lpc' = "written"
    /\ UNCHANGED <<written, parsed, normVars, reqVars, logVars, cfgVars, setVars>>

\* HandleUpdate ranges over the labels of the issue it has fetched
ParseLabels ==
    /\ lpc = "written"
    /\ parsed' = [sreId |-> LabelId(labelled.Labels, sreLabelKey),
                  managerId |-> LabelId(labelled.Labels, managerLabelKey)]
    /\ lpc' = "parsed"
    /\ UNCHANGED <<written, labelled, normVars, reqVars, logVars, cfgVars, setVars>>

NextLbl == WriteLabels \/ ParseLabels

SpecLbl == InitLbl /\ [][NextLbl]_vars

-----------------------------------------------------------------------------

(* Startup: LoadConfig logs the settings viper has read (checkSettings) *)

\* a nested setting: a map[string]interface{}
VMap(m) == [kind |-> "map", v |-> m]

\* filterSensitiveData(k, v): the line logged for the key k with the value v
filterSensitiveData(k, v) ==
    LET shown == IF Contains(k, "token") THEN VStr("*****") ELSE v
    IN "found key " \o k \o ": " \o Sprint(shown)

\* the orders in which a range over a map with the keys S can yield them
Orders(S) ==
    {o \in [1..Cardinality(S) -> S] : \A i, j \in 1..Cardinality(S) : o[i] = o[j] => i = j}

\* the body of the loop of checkSettings for one top-level key: the lines of
\* a nested map, its keys taken in the order ord, or the line of the value
settingLines(key, value, ord) ==
    IF value.kind = "map"
    THEN [i \in 1..Len(ord) |-> filterSensitiveData(key \o "." \o ord[i], value.v[ord[i]])]
    ELSE <<filterSensitiveData(key, value)>>

RECURSIVE checkSettings(_, _, _)
\* checkSettings() on the settings s: the lines logged when the range over s
\* yields its keys in the order outer and the range over the nested map of
\* the key k yields them in the order inner[k]
checkSettings(s, outer, inner) ==
    IF Len(outer) = 0 THEN <<>>
    ELSE settingLines(Head(outer), s[Head(outer)], inner[Head(outer)])
             \o checkSettings(s, Tail(outer), inner)

\* the credentials of the configuration: tokens and the LDAP bind password
TokenInputs == {"tok-1", "tok-2"}
PasswordInputs == {"hunter2", "pa55"}

\* the settings viper holds after ReadInConfig: the keys of Config, lower-cased;
\* jiraconfig may be absent and the file may hold a top-level key, token
SettingsInputs ==
    LET base(t, p) ==
            [k \in {"listenport", "splunkconfig", "ldapconfig"} |->
                IF k = "listenport" THEN VNum(8080)
                ELSE IF k = "splunkconfig"
                THEN VMap([host |-> VStr("https://splunk.example.org"), token |-> VStr(t)])
                ELSE VMap([username |-> VStr("binduser"), password |-> VStr(p)])]
        jira(t) == [k \in {"jiraconfig"} |-> VMap([token |-> VStr(t)])]
        top(t) == [k \in {"token"} |-> VStr(t)]
        bases == {base(t, p) : t \in TokenInputs, p \in PasswordInputs}
    IN bases
        \cup {b @@ jira("tok-2") : b \in bases}
        \cup {b @@ top("tok-1") : b \in bases}

\* for every key of s an order of its nested map (<<>> for a value that is none)
InnerOrders(s) ==
    LET all == UNION {Orders(DOMAIN s[j].v) : j \in {i \in DOMAIN s : s[i].kind = "map"}}
        of(k) == IF s[k].kind = "map" THEN Orders(DOMAIN s[k].v) ELSE {<<>>}
    IN {f \in [DOMAIN s -> all \cup {<<>>}] : \A k \in DOMAIN s : f[k] \in of(k)}

InitSet ==
    /\ spc = "read"
    /\ settings \in SettingsInputs
    /\ printed = <<>>
    /\ npc = "off"
    /\ raw = <<>>
    /\ out = NewAlertDetails(<<>>)
    /\ valid = FALSE
    /\ InitReq
    /\ InitLogger
    /\ InitNoConfig
    /\ InitNoLabels

\* LoadConfig: checkSettings() logs every setting, in the order of the maps
CheckSettings ==
    /\ spc = "read"
    /\ \E outer \in Orders(DOMAIN settings) :
        \E inner \in InnerOrders(settings) :
            printed' = checkSettings(settings, outer, inner)
    /\ spc' = "printed"
    /\ UNCHANGED <<settings, normVars, reqVars, logVars, cfgVars, lblVars>>

NextSet == CheckSettings

SpecSet == InitSet /\ [][NextSet]_vars

-----------------------------------------------------------------------------

(* Properties *)

\* the CreateTicket calls of the current request made for a compliance event
Attempts == SelectSeq(hlog, LAMBDA e : e.op = "CreateTicket" /\ e.k > 0)

\* all CreateTicket calls of the current request
TicketCalls == SelectSeq(hlog, LAMBDA e : e.op = "CreateTicket")

\* the normalized records of the result set that have a name, a user, a group
\* and a cluster, in the order of the result set
ValidRecords ==
    SelectSeq([j \in 1..Len(results) |-> Normalized[results[j]]],
              LAMBDA a : a.AlertName # "" /\ a.User # "" /\ a.Group # "" /\ a.ClusterIDs # <<>>)

\* the latest step of the current request
LastStep == hlog[Len(hlog)]

\* the latest operation of the current request is op
LastIs(op) == Len(hlog) > 0 /\ LastStep.op = op

HasCall(op) == \E i \in 1..Len(tcalls) : tcalls[i].op = op

\* HandleUpdate has run on an issue the tracker holds
Updated == handler = "jira" /\ LastIs("HandleUpdate") /\ LastStep.k \in 1..Len(issues)

\* the live issue HandleUpdate has run on
Live == issues[LastStep.k]

\* HandleUpdate has refetched the issue and found the comment author to be its assignee
FromAssignee ==
    /\ Updated
    /\ ~cfg.DryRun
    /\ tcalls # <<>> /\ tcalls[1].ok
    /\ Live.Assignee = <<LastStep.user>>

HasLabel(issue, label) == \E j \in 1..Len(issue.Labels) : issue.Labels[j] = label

\* C1: fail-fast. Once the CreateTicket call for a compliance event has
\* returned an error, the handler makes no further LDAP lookup or CreateTicket
\* call in that request, and the request is answered with one 500.
C1_FailFast ==
    \A i \in 1..Len(hlog) :
        (hlog[i].op = "CreateTicket" /\ hlog[i].k > 0 /\ ~hlog[i].ok)
            => /\ i = Len(hlog)
               /\ pc = "done"
               /\ resp = <<status500>>

\* the creation for the first of two valid alerts has failed
C1_Witness ==
    /\ handler = "alert" /\ pc = "done"
    /\ Len(ValidRecords) = 2
    /\ LastIs("CreateTicket") /\ LastStep.k = 1 /\ ~LastStep.ok

\* C2: order preservation. The i-th ticket creation attempted in a request is
\* for the i-th valid record of the result set, so the attempts follow the
\* order of the result set and no record is attempted twice.
C2_OrderPreserved ==
    pc # "panic" =>
        /\ Len(Attempts) <= Len(ValidRecords)
        /\ \A i \in 1..Len(Attempts) :
            /\ Attempts[i].k = i
            /\ Attempts[i].desc = Body(ValidRecords[i])

\* two creations attempted, for two different users, with an invalid record in between or not
C2_Witness ==
    /\ Len(Attempts) = 2
    /\ Attempts[1].desc # Attempts[2].desc
    /\ Attempts[1].ok

\* C3: diagnostic-ticket fallback. When the search retrieval returns an error
\* the handler makes exactly one CreateTicket call, with empty user and
\* manager, no per-alert call, and answers 500 whether that call succeeds or not.
C3_DiagnosticFallback ==
    (\E i \in 1..Len(hlog) :
        hlog[i].op = "RetrieveSearchFromAlert" /\ ~hlog[i].ok /\ hlog[i].desc # "panic")
        => /\ Len(TicketCalls) = 1
           /\ TicketCalls[1].user = "" /\ TicketCalls[1].manager = "" /\ TicketCalls[1].k = 0
           /\ \A i \in 1..Len(hlog) : hlog[i].op # "LookupUser"
           /\ Len(Attempts) = 0
           /\ pc = "done"
           /\ resp = <<status500>>

\* the search has failed and the diagnostic ticket could not be filed either
C3_Witness ==
    /\ Len(hlog) = 4
    /\ hlog[3].op = "RetrieveSearchFromAlert" /\ ~hlog[3].ok
    /\ hlog[4].op = "CreateTicket" /\ ~hlog[4].ok
    /\ resp = <<status500>>

\* C4: notification guard. When HandleUpdate finds the comment author to
\* differ from the assignee of the live issue, it returns nil and makes no
\* GetTransitions and no DoTransition call, whatever the labels are.
C4_NotificationGuard ==
    (/\ Updated
     /\ tcalls # <<>> => tcalls[1].ok
     /\ Live.Assignee # <<>>
     /\ Live.Assignee[1] # LastStep.user)
        => /\ LastStep.ok
           /\ ~HasCall("GetTransitions")
           /\ ~HasCall("DoTransition")

\* the recorded manager comments while the issue is still assigned to the SRE
C4_Witness ==
    /\ Updated /\ ~cfg.DryRun
    /\ tcalls # <<>> /\ tcalls[1].ok
    /\ Live.Assignee # <<>>
    /\ Live.Assignee[1] # LastStep.user
    /\ HasLabel(Live, managerLabel(LastStep.user))
    /\ LastStep.ok

\* C5 as stated: a comment by the assignee whose id is in the sre label selects
\* Transitions["sre"], one whose id is in the manager label selects
\* Transitions["manager"], and the transition applied has the selected name.
C5_Original ==
    FromAssignee =>
        /\ HasLabel(Live, sreLabel(LastStep.user)) => LastStep.desc = Transitions["sre"]
        /\ HasLabel(Live, managerLabel(LastStep.user)) => LastStep.desc = Transitions["manager"]
        /\ \A i \in 1..Len(tcalls) :
            tcalls[i].op = "DoTransition" => tcalls[i].name = LastStep.desc

\* C5: notification routing. A comment by the assignee whose id is in the sre
\* label selects Transitions["sre"]; one whose id is in the manager label and
\* not in the sre label selects Transitions["manager"]; the transition applied
\* is the one the tracker lists under the selected name.
C5_Routing ==
    FromAssignee =>
        /\ HasLabel(Live, sreLabel(LastStep.user)) => LastStep.desc = Transitions["sre"]
        /\ (HasLabel(Live, managerLabel(LastStep.user)) /\ ~HasLabel(Live, sreLabel(LastStep.user)))
                => LastStep.desc = Transitions["manager"]
        /\ \A i \in 1..Len(tcalls) :
            tcalls[i].op = "DoTransition" => tcalls[i].name = LastStep.desc

\* the recorded manager, now the assignee, comments and the manager transition is applied
C5_Witness ==
    /\ FromAssignee
    /\ HasLabel(Live, managerLabel(LastStep.user))
    /\ ~HasLabel(Live, sreLabel(LastStep.user))
    /\ \E i \in 1..Len(tcalls) :
        tcalls[i].op = "DoTransition" /\ tcalls[i].ok /\ tcalls[i].name = Transitions["manager"]

\* C6: dry-run safety. With DryRun enabled no Create, AddComment or
\* DoTransition call is made and the tracker holds no issue of the program's.
C6_DryRunSafe ==
    cfg.DryRun =>
        /\ \A i \in 1..Len(tcalls) : tcalls[i].op \notin MutatingOps
        /\ issues = <<>>

\* a dry-run batch of two events, both "created", answered with 200
C6_Witness ==
    /\ cfg.DryRun
    /\ handler = "alert" /\ pc = "done"
    /\ Len(Attempts) = 2 /\ Attempts[1].ok /\ Attempts[2].ok
    /\ resp = <<status200>>

\* C7 as stated: with DryRun enabled CreateTicket and HandleUpdate still run
\* the identity resolution and the transition-name lookup against the issue's
\* available transitions.
C7_Original ==
    cfg.DryRun =>
        /\ (LastIs("CreateTicket") /\ LastStep.ok) => (HasCall("Find") /\ HasCall("GetTransitions"))
        /\ (handler = "jira" /\ LastIs("HandleUpdate")) => HasCall("GetTransitions")

\* C7: with DryRun enabled CreateTicket still makes the reporter lookup and the
\* two identity searches, and returns an error exactly when the reporter
\* lookup or the template fails; the transition-name lookup is not made
\* (no GetTransitions call), and HandleUpdate returns nil without any call.
C7_DryRunLogic ==
    cfg.DryRun =>
        /\ LastIs("CreateTicket") =>
            /\ tcalls # <<>> /\ tcalls[1].op = "GetSelf"
            /\ tcalls[1].ok => (Len(tcalls) = 3 /\ tcalls[2].op = "Find" /\ tcalls[3].op = "Find")
            /\ LastStep.ok <=> (tcalls[1].ok /\ cfg.Template = "ok")
            /\ ~HasCall("GetTransitions")
        /\ (handler = "jira" /\ LastIs("HandleUpdate")) => (tcalls = <<>> /\ LastStep.ok)

\* in dry-run mode the reporter lookup fails and CreateTicket returns the error
C7_Witness ==
    /\ cfg.DryRun
    /\ LastIs("CreateTicket") /\ LastStep.k > 0
    /\ ~LastStep.ok
    /\ tcalls # <<>> /\ ~tcalls[1].ok

\* C8: normalizer totality. NewAlertDetails returns for every raw result; it never panics.
C8_NormalizerTotal == npc # "panic"

\* C9: Valid() is true exactly when the alert name, the user and the group are
\* non-empty and there is at least one cluster id; nothing else matters.
C9_ValidIff ==
    npc = "out" =>
        (valid <=> (out.AlertName # "" /\ out.User # "" /\ out.Group # "" /\ Len(out.ClusterIDs) >= 1))

\* a valid alert with the zero timestamp and no reasons
C9_Witness ==
    /\ npc = "out" /\ valid
    /\ out.Timestamp = ZeroTime
    /\ out.Reasons = <<>>

\* C10: list-field extraction. slice gives a zero-length sequence for an absent
\* field, the one-element sequence of a scalar string, and a list of strings
\* unchanged.
C10_SliceCases ==
    npc = "out" =>
        \A p \in {<<"clusterid", out.ClusterIDs>>, <<"reason", out.Reasons>>} :
            /\ p[1] \notin DOMAIN raw => Len(p[2]) = 0
            /\ (p[1] \in DOMAIN raw /\ raw[p[1]].kind = "string") => p[2] = <<raw[p[1]].v>>
            /\ (p[1] \in DOMAIN raw /\ raw[p[1]].kind = "[]string") => p[2] = raw[p[1]].v

\* a scalar cluster id has become a one-element sequence
C10_Witness ==
    /\ npc = "out"
    /\ "clusterid" \in DOMAIN raw /\ raw["clusterid"].kind = "string"
    /\ out.ClusterIDs = <<"c1">>

\* the text of the timestamp field of the raw result ("" when it is missing)
TimestampText == IF "timestamp" \in DOMAIN raw THEN Sprint(raw["timestamp"]) ELSE ""

\* s has the shape YYYY-MM-DDThh:mm:ss.GMT
MatchesSplunkFormat(s) ==
    /\ Len(s) = 23
    /\ \A i \in {1, 2, 3, 4, 6, 7, 9, 10, 12, 13, 15, 16, 18, 19} : IsDigit(s, i)
    /\ SubSeq(s, 5, 5) = "-" /\ SubSeq(s, 8, 8) = "-" /\ SubSeq(s, 11, 11) = "T"
    /\ SubSeq(s, 14, 14) = ":" /\ SubSeq(s, 17, 17) = ":"
    /\ SubSeq(s, 20, 23) = ".GMT"

\* the instant a text of that shape denotes
InstantOf(s) ==
    [year |-> Atoi(SubSeq(s, 1, 4)), month |-> Atoi(SubSeq(s, 6, 7)), day |-> Atoi(SubSeq(s, 9, 10)),
     hour |-> Atoi(SubSeq(s, 12, 13)), min |-> Atoi(SubSeq(s, 15, 16)), sec |-> Atoi(SubSeq(s, 18, 19)),
     nsec |-> 0]

\* a text of that shape denotes an instant: its fields are in range
DenotesInstant(s) ==
    LET t == InstantOf(s)
    IN /\ t.month \in 1..12 /\ t.day \in 1..DaysIn(t.month, t.year)
       /\ t.hour < 24 /\ t.min < 60 /\ t.sec < 60

\* C11: timestamp extraction. SearchResult.time gives the instant the text
\* denotes when the text has the shape YYYY-MM-DDThh:mm:ss.GMT, and the zero
\* timestamp when the field is missing, empty or any text not of that shape.
C11_TimeExtraction ==
    npc = "out" =>
        /\ (MatchesSplunkFormat(TimestampText) /\ DenotesInstant(TimestampText))
                => out.Timestamp = InstantOf(TimestampText)
        /\ ~MatchesSplunkFormat(TimestampText) => out.Timestamp = ZeroTime

\* what holds of the code: a text of the shape gives its instant; a missing or
\* empty field, and a text that time.Parse rejects, give the zero timestamp
C11_ParsedOrZero ==
    npc = "out" =>
        /\ (MatchesSplunkFormat(TimestampText) /\ DenotesInstant(TimestampText))
                => out.Timestamp = InstantOf(TimestampText)
        /\ (TimestampText = "" \/ ~ParseSplunkTime(TimestampText).ok) => out.Timestamp = ZeroTime

\* a text with a one-digit hour, not of the shape, has given an instant
C11_Lenient ==
    /\ npc = "out"
    /\ ~MatchesSplunkFormat(TimestampText)
    /\ out.Timestamp # ZeroTime

\* the search of the current request has returned its results
Searched ==
    /\ handler = "alert" /\ pc \in {"loop", "done"}
    /\ \E i \in 1..Len(hlog) : hlog[i].op = "RetrieveSearchFromAlert" /\ hlog[i].ok

\* the result set with every invalid record removed: every record that has a
\* normalized form and lacks a name, a user, a group or a cluster in it
ValidRaw ==
    SelectSeq(results,
              LAMBDA r : LET a == Normalized[r]
                         IN \/ NewAlertDetailsPanics(r)
                            \/ a.AlertName # "" /\ a.User # "" /\ a.Group # "" /\ a.ClusterIDs # <<>>)

\* C12: invalid alerts are a silent filter. The events the handler works on
\* are exactly the valid normalized records in input order, the same as for
\* the result set without its invalid records; every LDAP lookup and every
\* ticket (normal or diagnostic) is for one of them, and a 500 is answered
\* only after a lookup or a creation for one of them has failed.  Where the
\* normalization of the result set panics, that of the set without its invalid
\* records panics as well.
C12_SilentFilter ==
    /\ (handler = "alert" /\ pc = "panic") =>
        (DetailsOf[ValidRaw].panics /\ TicketCalls = <<>> /\ resp = <<>>)
    /\ Searched =>
        /\ ~DetailsOf[ValidRaw].panics
        /\ details = ValidRecords
        /\ details = DetailsOf[ValidRaw].details
        /\ idx <= Len(ValidRecords)
        /\ \A i \in 1..Len(hlog) :
            LET e == hlog[i]
            IN /\ e.op = "LookupUser" =>
                    (e.k \in 1..Len(ValidRecords) /\ e.user = ValidRecords[e.k].User)
               /\ (e.op = "CreateTicket" /\ e.k > 0) =>
                    (e.k \in 1..Len(ValidRecords) /\ e.desc = Body(ValidRecords[e.k]))
               /\ (e.op = "CreateTicket" /\ e.k = 0) =>
                    /\ hlog[i - 1].op = "LookupUser" /\ ~hlog[i - 1].ok
                    /\ e.desc = DiagLDAPText(ValidRecords[hlog[i - 1].k])
        /\ resp # <<>> =>
            \/ resp = <<status200>> /\ Len(ValidRecords) = idx
            \/ /\ resp = <<status500>>
               /\ \E i \in 1..Len(hlog) : hlog[i].op \in {"LookupUser", "CreateTicket"} /\ ~hlog[i].ok

\* an invalid record before a valid one: one ticket, for the valid one, and 200
C12_Witness ==
    /\ Searched /\ pc = "done"
    /\ Len(results) = 2 /\ Len(ValidRecords) = 1
    /\ NewAlertDetails(results[1]).ClusterIDs = <<>>
    /\ Len(TicketCalls) = 1 /\ TicketCalls[1].desc = Body(NewAlertDetails(results[2]))
    /\ resp = <<status200>>

\* the step op for compliance event k has been made and returned without error
Succeeded(op, k) == \E i \in 1..Len(hlog) : hlog[i].op = op /\ hlog[i].k = k /\ hlog[i].ok

\* the body decoded, the client was built, the search returned, and the lookup
\* (when LDAP is enabled) and the creation succeeded for every valid record
AllSucceeded ==
    /\ Succeeded("DecodeJSONRequestBody", 0)
    /\ Succeeded("DefaultClient", 0)
    /\ Succeeded("RetrieveSearchFromAlert", 0)
    /\ \A k \in 1..Len(ValidRecords) :
        /\ Succeeded("CreateTicket", k)
        /\ cfg.LDAPEnabled => Succeeded("LookupUser", k)

\* C13: a finished ProcessAlertHandler request has the response 200 exactly
\* when the decode, the client, the search and, for every valid alert, the
\* LDAP lookup (when enabled) and CreateTicket succeeded; an unfinished one has
\* no 200; a result set without valid alerts gives 200 and no CreateTicket.
C13_OkIff ==
    handler = "alert" =>
        /\ pc = "done" => (resp = <<status200>> <=> AllSucceeded)
        /\ pc # "done" => \A i \in 1..Len(resp) : resp[i].code # StatusOK
        /\ (pc = "done" /\ Searched /\ ValidRecords = <<>>)
                => (resp = <<status200>> /\ TicketCalls = <<>>)

\* a result set of invalid records only is answered with 200, no ticket attempted
C13_Witness ==
    /\ handler = "alert" /\ pc = "done"
    /\ Len(results) = 2 /\ ValidRecords = <<>>
    /\ TicketCalls = <<>>
    /\ resp = <<status200>>

\* the decode of the current request has failed
DecodeFailed == Len(hlog) >= 1 /\ hlog[1].op = "DecodeJSONRequestBody" /\ ~hlog[1].ok

\* ... with a *MalformedRequest
DecodeMalformed == DecodeFailed /\ hlog[1].k # 0

\* C14: no internal error text reaches the caller. Every response with status
\* 500 has the generic message as its body; a body other than "ok" and the
\* generic message is sent only after a malformed-request decode failure and
\* is the message of that MalformedRequest.
C14_NoInternalText ==
    \A i \in 1..Len(resp) :
        /\ resp[i].code = StatusInternalServerError => resp[i].body = genericErrorMsg
        /\ resp[i].body \notin {"", "ok", genericErrorMsg} =>
            (DecodeMalformed /\ resp[i].body = hlog[1].desc)

\* a decode error that is not a MalformedRequest, with a text of its own, answered with the generic 500
C14_Witness ==
    /\ DecodeFailed /\ ~DecodeMalformed
    /\ hlog[1].desc \notin {"", genericErrorMsg}
    /\ resp = <<[code |-> StatusInternalServerError, body |-> genericErrorMsg]>>

\* C15: malformed input short-circuits. After a failed decode the handler has
\* answered once, with the status and message of the MalformedRequest or else
\* with the generic 500, and has made no other call: no Jira client, search,
\* LDAP lookup, CreateTicket or HandleUpdate, and no tracker call.
C15_DecodeShortCircuit ==
    DecodeFailed =>
        /\ Len(hlog) = 1
        /\ tcalls = <<>>
        /\ pc = "done"
        /\ resp = IF DecodeMalformed
                  THEN <<[code |-> hlog[1].k, body |-> hlog[1].desc]>>
                  ELSE <<[code |-> StatusInternalServerError, body |-> genericErrorMsg]>>

\* a malformed alert webhook answered with the status and message of the MalformedRequest
C15_Witness ==
    /\ handler = "alert" /\ DecodeMalformed
    /\ resp = <<[code |-> hlog[1].k, body |-> hlog[1].desc]>>
    /\ resp[1].code \notin {StatusOK, StatusInternalServerError}

\* C16: tracker client failure is fatal in both handlers. When
\* jira.DefaultClient has returned an error the request ends with a single 500
\* response and nothing is called after it.
C16_ClientFatal ==
    \A i \in 1..Len(hlog) :
        (hlog[i].op = "DefaultClient" /\ ~hlog[i].ok)
            => /\ i = Len(hlog)
               /\ pc = "done"
               /\ resp = <<status500>>

\* what holds of ProcessAlertHandler: the client failure ends the request with one 500
C16_ClientFatalAlert ==
    handler = "alert" => C16_ClientFatal

\* ProcessJiraWebhook has written the 500 and gone on to dereference the nil client
C16_JiraPanic ==
    /\ handler = "jira" /\ pc = "panic"
    /\ LastIs("DefaultClient") /\ ~LastStep.ok

\* C17: identity-lookup failure aborts the batch. After ldap.LookupUser has
\* failed for the k-th valid alert the handler has made exactly one diagnostic
\* CreateTicket call (empty user and manager, a body naming that alert),
\* answered 500, and made no call for a later alert nor a normal CreateTicket
\* call for the k-th.
C17_LookupFailureAborts ==
    \A i \in 1..Len(hlog) :
        (hlog[i].op = "LookupUser" /\ ~hlog[i].ok) =>
            /\ cfg.LDAPEnabled
            /\ Len(hlog) = i + 1
            /\ hlog[i + 1] = Step("CreateTicket", 0, "", "", DiagLDAPText(ValidRecords[hlog[i].k]),
                                  hlog[i + 1].ok)
            /\ \A j \in 1..Len(hlog) :
                /\ hlog[j].op = "CreateTicket" => (hlog[j].k < hlog[i].k)
                /\ hlog[j].op = "LookupUser" => (hlog[j].k <= hlog[i].k)
            /\ pc = "done"
            /\ resp = <<status500>>

\* the lookup for the first of two valid alerts has failed; the diagnostic ticket was filed
C17_Witness ==
    /\ cfg.LDAPEnabled /\ ~cfg.DryRun
    /\ Len(ValidRecords) = 2
    /\ Len(hlog) >= 2 /\ hlog[Len(hlog) - 1].op = "LookupUser" /\ hlog[Len(hlog) - 1].k = 1
    /\ ~hlog[Len(hlog) - 1].ok
    /\ LastIs("CreateTicket") /\ LastStep.ok
    /\ Len(issues) = 1
    /\ resp = <<status500>>

\* C18: concurrent requests share no mutable state. Every line a request
\* writes to the log is written under that request's own uuid, however the
\* other request is interleaved with it.
C18_RequestsIsolated ==
    \A i \in 1..Len(loglines) : loglines[i].prefix = Uuid(loglines[i].req) \o " "

\* a line of request A has been written under the uuid of request B
C18_ForeignPrefix ==
    \E i \in 1..Len(loglines) : loglines[i].req = "A" /\ loglines[i].prefix = Uuid("B") \o " "

\* CreateTicket has created an issue in this step: it is the newest of the tracker
Created == \E i \in 1..Len(tcalls) : tcalls[i].op = "Create" /\ tcalls[i].ok

\* the Find call c has found exactly one user
FoundOne(c) == c.op = "Find" /\ c.ok /\ c.name # "" /\ ~Contains(c.name, ",")

\* C19: assignee and labels go together. The issue CreateTicket has created
\* has an assignee iff it has labels iff the search for the SRE found exactly
\* one user; the assignee is that user and the labels are the managed label,
\* sre:<that user's id> and manager:<the id of the single user found for the
\* manager, or "unknown">.
C19_AssigneeAndLabels ==
    Created =>
        LET issue == issues[Len(issues)]
            sre == tcalls[2]
            mgr == tcalls[3]
        IN /\ (issue.Assignee # <<>>) <=> (issue.Labels # <<>>)
           /\ (issue.Assignee # <<>>) <=> FoundOne(sre)
           /\ FoundOne(sre) =>
                /\ issue.Assignee = <<sre.name>>
                /\ issue.Labels = <<"compliance-audit-router/managed",
                                    "compliance-audit-router/sre:" \o sre.name,
                                    "compliance-audit-router/manager:"
                                        \o (IF FoundOne(mgr) THEN mgr.name ELSE "unknown")>>

\* an issue created for an SRE who resolved while the search for the manager found two users
C19_Witness ==
    /\ Created
    /\ FoundOne(tcalls[2]) /\ tcalls[3].ok /\ ~FoundOne(tcalls[3])
    /\ issues[Len(issues)].Assignee = <<"acc-1">>
    /\ Len(issues[Len(issues)].Labels) = 3

\* an issue created without assignee and labels: the search for the SRE found two users
C19_Unresolved ==
    /\ Created
    /\ tcalls[2].ok /\ Contains(tcalls[2].name, ",")
    /\ issues[Len(issues)] = [Assignee |-> <<>>, Labels |-> <<>>]

\* the LDAP host is given in one of the forms of the README: without a scheme,
\* or with the scheme ldap:// or ldaps://
ReadmeLDAPHost ==
    /\ conf.LDAPHost # ""
    /\ \/ ~Contains(conf.LDAPHost, "://")
       \/ HasPrefix(conf.LDAPHost, "ldap://")
       \/ HasPrefix(conf.LDAPHost, "ldaps://")

\* the validation has reported an error for the LDAP host
LDAPHostError ==
    \E i \in 1..Len(verrs) : HasPrefix(verrs[i], "ldapconfig.host")

\* C20: the README's contract on the LDAP host. A configuration whose
\* ldapconfig.host is given without a scheme, with ldap:// or with ldaps:// is
\* accepted by the validation: no error is reported for that host.
C20_ReadmeHostAccepted ==
    (vpc = "checked" /\ ReadmeLDAPHost) => ~LDAPHostError

\* of the README's forms the one with ldaps:// is accepted
C20_LdapsAccepted ==
    (vpc = "checked" /\ HasPrefix(conf.LDAPHost, "ldaps://")) => ~LDAPHostError

\* a host given with ldap:// has been reported as missing its scheme
C20_LdapRejected ==
    /\ vpc = "checked"
    /\ conf.LDAPHost = "ldap://ldap.example.org"
    /\ verrs = <<"ldapconfig.host missing scheme: ldap://ldap.example.org">>

\* the tracker calls of one run of CreateTicket, in the order of its code
CreateOrder ==
    <<"GetSelf", "Find", "Find", "Create", "AddComment", "GetTransitions", "DoTransition">>

\* CreateTicket has run in this step with dry-run off: tcalls are its calls
TicketRun == handler = "alert" /\ LastIs("CreateTicket") /\ ~cfg.DryRun

\* C21: step order and success condition of CreateTicket with dry-run off. The
\* tracker calls are a prefix of: reporter lookup, SRE search, manager search,
\* Create, AddComment, GetTransitions, DoTransition. Create is called only
\* after a successful reporter lookup, AddComment only after a successful
\* Create, DoTransition only after a successful AddComment and a transition
\* lookup that found the initial state; CreateTicket returns nil only if the
\* DoTransition to the configured initial state has succeeded.
C21_StepOrder ==
    TicketRun =>
        /\ Len(tcalls) \in 1..Len(CreateOrder)
        /\ \A i \in 1..Len(tcalls) : tcalls[i].op = CreateOrder[i]
        /\ Len(tcalls) >= 4 => tcalls[1].ok
        /\ Len(tcalls) >= 5 => tcalls[4].ok
        /\ Len(tcalls) >= 7 =>
            /\ tcalls[5].ok /\ tcalls[6].ok
            /\ tcalls[7].name = Transitions[initialTransitionKey]
        /\ LastStep.ok =>
            /\ Len(tcalls) = 7
            /\ tcalls[7].ok /\ tcalls[7].name = Transitions[initialTransitionKey]

\* a run of CreateTicket that made all seven calls and returned nil, on a
\* tracker that lists another transition before the initial one
C21_Witness ==
    /\ TicketRun /\ LastStep.ok
    /\ Len(tcalls) = 7
    /\ tcalls[7].ok /\ tcalls[7].arg = "12"

\* a run of CreateTicket whose DoTransition failed after six successful steps
C21_LastStepFailed ==
    /\ TicketRun /\ ~LastStep.ok
    /\ Len(tcalls) = 7 /\ ~tcalls[7].ok

\* C22: unresolved identities never abort creation. After a successful
\* reporter lookup Create is called whatever the two searches answered; an SRE
\* or a manager whose search failed or did not find exactly one user is
\* replaced by "unknown" (in the comment's mention, in the manager label), and
\* CreateTicket returns nil exactly when its last step, the DoTransition,
\* succeeded: the failed search is the cause of no error.
C22_UnresolvedProceeds ==
    (TicketRun /\ tcalls[1].ok) =>
        /\ Len(tcalls) >= 4 /\ tcalls[4].op = "Create"
        /\ Len(tcalls) >= 5 <=> (tcalls[4].ok /\ cfg.Template = "ok")
        /\ Len(tcalls) >= 6 <=> (Len(tcalls) >= 5 /\ tcalls[5].ok)
        /\ (Len(tcalls) >= 5 /\ ~FoundOne(tcalls[2])) => tcalls[5].arg = "[~accountid:unknown]"
        /\ (Created /\ FoundOne(tcalls[2]) /\ ~FoundOne(tcalls[3]))
                => HasLabel(issues[Len(issues)], "compliance-audit-router/manager:unknown")
        /\ LastStep.ok <=> (Len(tcalls) = 7 /\ tcalls[7].ok)

\* the search for the SRE fails, the search for the manager finds two users,
\* and CreateTicket creates the issue and returns nil
C22_Witness ==
    /\ TicketRun /\ LastStep.k > 0 /\ LastStep.ok
    /\ ~tcalls[2].ok
    /\ tcalls[3].ok /\ Contains(tcalls[3].name, ",")
    /\ Created
    /\ tcalls[5].arg = "[~accountid:unknown]"

\* C23: a template failure is a hard failure after creation. In the step in
\* which CreateTicket (dry-run off) has created the issue and the message
\* template fails, CreateTicket returns an error, Create is its last tracker
\* call (no AddComment, no DoTransition), and the tracker holds the issues it
\* held before and the new one.
C23_TemplateHardFailure ==
    [][(/\ hlog' # hlog
        /\ handler' = "alert" /\ ~cfg.DryRun /\ cfg.Template # "ok"
        /\ \E i \in 1..Len(tcalls') : tcalls'[i].op = "Create" /\ tcalls'[i].ok)
            => /\ ~hlog'[Len(hlog')].ok
               /\ tcalls'[Len(tcalls')].op = "Create"
               /\ \A i \in 1..Len(tcalls') : tcalls'[i].op \notin {"AddComment", "DoTransition"}
               /\ Len(issues') = Len(issues) + 1
               /\ SubSeq(issues', 1, Len(issues)) = issues]_vars

\* the template cannot be executed: the issue for a compliance event is
\* created, CreateTicket fails and the request is answered with 500
C23_Witness ==
    /\ TicketRun /\ LastStep.k > 0 /\ ~LastStep.ok
    /\ cfg.Template = "exec_fail"
    /\ Created /\ Len(tcalls) = 4
    /\ Len(issues) = 1
    /\ resp = <<status500>>

\* CreateTicket or HandleUpdate has run in this step with dry-run off
TrackerRun == ~cfg.DryRun /\ (LastIs("CreateTicket") \/ LastIs("HandleUpdate"))

\* the state name the run has asked getTransitionId for
Requested == IF LastIs("CreateTicket") THEN Transitions[initialTransitionKey] ELSE LastStep.desc

\* the state names a run can ask for, and one the tracker never lists
StatusNames == {Transitions[k] : k \in DOMAIN Transitions} \cup {"", "Closed", "Rejected"}

\* the position of the transition with the given id in list (0: none)
PositionOf(list, id) ==
    IF \E k \in 1..Len(list) : list[k].ID = id
    THEN CHOOSE k \in 1..Len(list) : list[k].ID = id
    ELSE 0

\* the list of transitions the tracker has answered with: the one that holds id
ListOf(id) == CHOOSE l \in TransitionLists : PositionOf(l, id) > 0

\* C24: transition lookup with dry-run off. getTransitionId returns the id of
\* the first of the issue's transitions whose name is the requested state
\* name, and an error when none has that name. In a run, every DoTransition
\* follows a successful GetTransitions and carries the id of the first
\* transition of the requested name; a run whose lookup failed makes no
\* DoTransition call and returns an error.
C24_TransitionLookup ==
    /\ \A l \in TransitionLists, s \in StatusNames :
        LET r == getTransitionId(FALSE, 1, s, [err |-> FALSE, list |-> l])
            named == {k \in 1..Len(l) : l[k].Name = s}
        IN /\ r.err <=> named = {}
           /\ ~r.err => (PositionOf(l, r.id) \in named /\ \A k \in named : PositionOf(l, r.id) <= k)
    /\ TrackerRun =>
        /\ \A i \in 1..Len(tcalls) :
            tcalls[i].op = "DoTransition" =>
                /\ i > 1 /\ tcalls[i - 1].op = "GetTransitions" /\ tcalls[i - 1].ok
                /\ tcalls[i].name = Requested
                /\ \A k \in 1..Len(ListOf(tcalls[i].arg)) :
                    ListOf(tcalls[i].arg)[k].Name = Requested
                        => PositionOf(ListOf(tcalls[i].arg), tcalls[i].arg) <= k
        /\ (tcalls # <<>> /\ tcalls[Len(tcalls)].op = "GetTransitions") => ~LastStep.ok

\* the tracker lists two transitions of the requested name and the first is applied
C24_Witness ==
    /\ TrackerRun /\ LastStep.ok
    /\ \E i \in 1..Len(tcalls) :
        /\ tcalls[i].op = "DoTransition" /\ tcalls[i].ok
        /\ tcalls[i].arg = "12" /\ tcalls[i].name = "Pending Justification"

\* the tracker lists no transition of the requested name: the run ends with
\* the successful GetTransitions call and returns an error
C24_NoneMatches ==
    /\ TrackerRun /\ ~LastStep.ok
    /\ tcalls # <<>>
    /\ tcalls[Len(tcalls)].op = "GetTransitions" /\ tcalls[Len(tcalls)].ok

\* the comment author is recorded on the live issue neither as SRE nor as manager
NeitherRole ==
    /\ ~HasLabel(Live, "compliance-audit-router/sre:" \o LastStep.user)
    /\ ~HasLabel(Live, "compliance-audit-router/manager:" \o LastStep.user)

\* C25: an assignee who is neither the recorded SRE nor the recorded manager.
\* When the comment author is the current assignee of the live issue and the
\* author's id is in neither correlation label, HandleUpdate (dry-run off)
\* returns an error and makes no DoTransition call.
C25_NeitherRole ==
    (FromAssignee /\ NeitherRole) =>
        /\ ~LastStep.ok
        /\ LastStep.desc = ""
        /\ ~HasCall("DoTransition")
        /\ resp = <<status500>>

\* a labelled issue reassigned to an account that is in none of its labels:
\* the assignee comments, the tracker lists its transitions, the lookup fails
C25_Witness ==
    /\ FromAssignee /\ NeitherRole
    /\ Live.Labels # <<>>
    /\ Len(tcalls) = 2 /\ tcalls[2].op = "GetTransitions" /\ tcalls[2].ok
    /\ ~LastStep.ok

\* the events with the issue id and the comment author of the one handled
SameEvent == {w \in Webhooks : w.IssueID = LastStep.k /\ w.Author = LastStep.user}

\* C26: live state is authoritative. Whatever the tracker answers, HandleUpdate
\* makes the same tracker calls and returns the same result for any two events
\* with the same issue id and the same comment author, whatever labels and
\* assignee the events carry; what the handled event has produced is what
\* every such event produces.
C26_LiveStateAuthoritative ==
    (handler = "jira" /\ LastIs("HandleUpdate")) =>
        /\ \A o \in UpdateOracles : \A w1, w2 \in SameEvent :
            HandleUpdate(cfg, w1, o, issues) = HandleUpdate(cfg, w2, o, issues)
        /\ \E o \in UpdateOracles : \A w \in SameEvent :
            LET u == HandleUpdate(cfg, w, o, issues)
            IN /\ u.calls = tcalls
               /\ u.status = LastStep.desc
               /\ (u.err = "" /\ ~u.panic) = LastStep.ok

\* the event carries a copy of the issue assigned to acc-3; the live issue is
\* assigned to the author, acc-1, and the transition of the live labels is applied
C26_Witness ==
    /\ FromAssignee
    /\ LastStep.user = "acc-1" /\ LastStep.manager = "acc-3"
    /\ Cardinality(SameEvent) = 2
    /\ LastStep.ok /\ HasCall("DoTransition")
    /\ LastStep.desc = "Pending Approval"

\* the event carries a copy assigned to its author, acc-3; the live issue is
\* assigned to acc-1 and the event is a no-op
C26_StaleAssignee ==
    /\ Updated /\ ~cfg.DryRun
    /\ LastStep.user = "acc-3" /\ LastStep.manager = "acc-3"
    /\ Live.Assignee = <<"acc-1">>
    /\ LastStep.ok /\ Len(tcalls) = 1

\* C27: the correlation labels round-trip. For every SRE account id s and
\* manager account id m, ids with ":" included, the labels CreateTicket writes
\* for (s, m) are read by HandleUpdate as sreId = s and managerId = m; the
\* managed label is read as neither.
C27_LabelsRoundTrip ==
    /\ LabelId(<<"compliance-audit-router/managed">>, "compliance-audit-router/sre") = ""
    /\ LabelId(<<"compliance-audit-router/managed">>, "compliance-audit-router/manager") = ""
    /\ lpc \in {"written", "parsed"} =>
        labelled.Labels = <<"compliance-audit-router/managed",
                            "compliance-audit-router/sre:" \o written.sre,
                            "compliance-audit-router/manager:" \o written.manager>>
    /\ lpc = "parsed" => (parsed.sreId = written.sre /\ parsed.managerId = written.manager)

\* both ids hold ":" and both are read back whole
C27_Witness ==
    /\ lpc = "parsed"
    /\ written = [sre |-> "557058:f58131cb-b67d-43c7", manager |-> "a:b:c"]
    /\ parsed = [sreId |-> "557058:f58131cb-b67d-43c7", managerId |-> "a:b:c"]

\* HandleUpdate (dry-run off) has fetched a live issue that has no assignee
Unassigned ==
    /\ Updated /\ ~cfg.DryRun
    /\ tcalls # <<>> /\ tcalls[1].ok
    /\ Live.Assignee = <<>>

\* C28: a comment on an unassigned issue is a no-op. When the live issue has
\* no assignee HandleUpdate (dry-run off) completes normally, returns no
\* error and makes no DoTransition call; the request is answered with 204.
C28_UnassignedNoOp ==
    Unassigned =>
        /\ pc # "panic"
        /\ LastStep.ok
        /\ ~HasCall("DoTransition")
        /\ resp = <<[code |-> StatusNoContent, body |-> ""]>>

\* on an unassigned issue HandleUpdate makes no call after the Get
C28_NoTransition == Unassigned => Len(tcalls) = 1

\* HandleUpdate has panicked on an issue CreateTicket created without assignee
\* and labels: the request has no response
C28_Panic ==
    /\ Unassigned
    /\ Live.Labels = <<>>
    /\ pc = "panic" /\ resp = <<>>

\* the downstream steps a failure of which is answered with a diagnostic ticket
Diagnosed == {"RetrieveSearchFromAlert", "LookupUser"}

\* the tracker calls of a run a failure of which ends the run
FatalCalls == {"GetSelf", "Get", "Create", "AddComment", "GetTransitions", "DoTransition"}

\* the diagnostic CreateTicket calls of the current request
Diagnostics == SelectSeq(hlog, LAMBDA e : e.op = "CreateTicket" /\ e.k = 0)

\* C29: no retries. Within a request a failed step is the last one, but for a
\* failed search retrieval or LDAP lookup, which is followed by exactly one
\* diagnostic CreateTicket, the last step; a step is made again only after it
\* has succeeded, for a later compliance event or for the one diagnostic
\* ticket; within a run of CreateTicket or HandleUpdate a failed
\* reporter lookup, Get, Create, AddComment, GetTransitions or DoTransition is
\* the last tracker call; and the request that has returned after a failure
\* is answered with one 500.
C29_NoRetries ==
    /\ \A i \in 1..Len(hlog) :
        ~hlog[i].ok =>
            IF hlog[i].op \in Diagnosed /\ hlog[i].desc # "panic"
            THEN /\ Len(hlog) = i + 1
                 /\ hlog[i + 1].op = "CreateTicket" /\ hlog[i + 1].k = 0
                 /\ Len(Diagnostics) = 1
            ELSE Len(hlog) = i
    /\ \A i, j \in 1..Len(hlog) :
        (i < j /\ hlog[i].op = hlog[j].op) =>
            /\ hlog[i].ok /\ hlog[i].k > 0
            /\ hlog[j].k > hlog[i].k \/ hlog[j].k = 0
    /\ Len(Diagnostics) <= 1
    /\ \A i \in 1..Len(tcalls) :
        (~tcalls[i].ok /\ tcalls[i].op \in FatalCalls) => i = Len(tcalls)
    /\ \A i, j \in 1..Len(tcalls) :
        (i < j /\ tcalls[i].op = tcalls[j].op) => tcalls[i].op = "Find"
    /\ (pc = "done" /\ \E i \in 1..Len(hlog) : ~hlog[i].ok /\ hlog[i].op # "DecodeJSONRequestBody")
            => resp = <<status500>>

\* the LDAP lookup for the second event fails; the diagnostic ticket is
\* attempted once, its Create fails, and the request is answered with 500
C29_Witness ==
    /\ handler = "alert" /\ pc = "done" /\ ~cfg.DryRun
    /\ Len(hlog) >= 2
    /\ hlog[Len(hlog) - 1].op = "LookupUser" /\ hlog[Len(hlog) - 1].k = 2 /\ ~hlog[Len(hlog) - 1].ok
    /\ LastStep.op = "CreateTicket" /\ LastStep.k = 0 /\ ~LastStep.ok
    /\ Len(tcalls) = 4 /\ ~tcalls[4].ok
    /\ resp = <<status500>>

\* C30: no rollback on partial completion. In every step of the alert
\* handler, the step in which a batch aborts included, the issues the tracker
\* held before the step are held unchanged after it, and no tracker call of
\* the step is about one of them.
C30_NoRollback ==
    [][(handler' = "alert" /\ hlog' # hlog)
            => /\ Len(issues') >= Len(issues)
               /\ SubSeq(issues', 1, Len(issues)) = issues
               /\ \A i \in 1..Len(tcalls') :
                    tcalls'[i].issue \notin 1..Len(issues)]_vars

\* a batch of two events has aborted at the second one, whose CreateTicket
\* failed; the issue created for the first one is in the tracker as created
C30_Witness ==
    /\ handler = "alert" /\ pc = "done" /\ ~cfg.DryRun
    /\ Len(Attempts) = 2 /\ Attempts[1].ok /\ ~Attempts[2].ok
    /\ resp = <<status500>>
    /\ issues = <<[Assignee |-> <<"acc-1">>,
                   Labels |-> <<"compliance-audit-router/managed",
                                "compliance-audit-router/sre:acc-1",
                                "compliance-audit-router/manager:unknown">>]>>

\* a batch has aborted at the second event, whose LDAP lookup failed, with the
\* issue of the first event in the tracker
C30_LookupAbort ==
    /\ handler = "alert" /\ pc = "done" /\ ~cfg.DryRun
    /\ Len(Attempts) = 1 /\ Attempts[1].ok
    /\ \E i \in 1..Len(hlog) : hlog[i].op = "LookupUser" /\ hlog[i].k = 2 /\ ~hlog[i].ok
    /\ Len(issues) = 1 /\ issues[1].Assignee = <<"acc-1">>

\* the ldap.LookupUser calls of the current request
Lookups == SelectSeq(hlog, LAMBDA e : e.op = "LookupUser")

\* C31: directory gating. With LDAPConfig.Enabled the handler calls
\* ldap.LookupUser once for every compliance event it handles, with the
\* event's user; without it the handler makes no LookupUser call, every
\* CreateTicket for an event gets the event's own user and an empty manager,
\* and no diagnostic ticket for a failed lookup is filed.
C31_DirectoryGating ==
    handler = "alert" =>
        /\ cfg.LDAPEnabled =>
            /\ Len(Lookups) = idx
            /\ \A i \in 1..Len(Lookups) :
                Lookups[i].k = i /\ Lookups[i].user = details[i].User
        /\ ~cfg.LDAPEnabled =>
            /\ Lookups = <<>>
            /\ \A i \in 1..Len(Attempts) :
                /\ Attempts[i].user = details[Attempts[i].k].User
                /\ Attempts[i].manager = ""
            /\ \A i \in 1..Len(Diagnostics) :
                Diagnostics[i].desc = DiagSearchText /\ idx = 0

\* the directory is off: a batch of two events is handled without lookup,
\* each ticket for the event's own user and no manager
C31_Witness ==
    /\ handler = "alert" /\ pc = "done" /\ ~cfg.LDAPEnabled
    /\ Lookups = <<>>
    /\ Len(Attempts) = 2
    /\ Attempts[1].user = details[1].User /\ Attempts[2].user = details[2].User
    /\ Attempts[1].manager = "" /\ Attempts[2].manager = ""

\* the directory is on: the lookup has resolved the manager the ticket is for
C31_Enabled ==
    /\ handler = "alert" /\ cfg.LDAPEnabled
    /\ Len(Lookups) = 1 /\ Lookups[1].ok
    /\ Len(Attempts) = 1 /\ Attempts[1].manager = "carol"

\* the CreateTicket calls for a compliance event that returned nil
Ticketed == SelectSeq(Attempts, LAMBDA e : e.ok)

\* C32: the processed-events counter. After an alert request in which each of
\* the N valid events had a successful CreateTicket call, the series of
\* compliance_events_processed of that request stands at N.
C32_ProcessedCounts ==
    (handler = "alert" /\ pc = "done" /\ resp = <<status200>>)
        => metrics.EventsProcessed = Len(Ticketed)

\* the processed-events counter is incremented once per request that is
\* answered with 200, whatever the number of its events
C32_OncePerRequest ==
    handler = "alert" =>
        /\ metrics.EventsProcessed = (IF pc = "done" /\ resp = <<status200>> THEN 1 ELSE 0)
        /\ metrics.EventsFound = idx

\* a request with two events, both ticketed, leaves the counter at 1
C32_TwoEventsOne ==
    /\ handler = "alert" /\ pc = "done" /\ resp = <<status200>>
    /\ Len(Ticketed) = 2
    /\ metrics.EventsProcessed = 1

\* C33: the issues-created counter. With dry-run off, the series of
\* jira_issues_created of a request stands at the number of its CreateTicket
\* calls for a compliance event that returned nil, each of which has created
\* an issue.
C33_IssuesCounted ==
    (handler = "alert" /\ ~cfg.DryRun) => metrics.JiraIssueCreated = Len(Ticketed)

\* the issues-created counter is never incremented
C33_NeverIncremented == metrics.JiraIssueCreated = 0

\* an issue has been created for a compliance event and the counter stands at 0
C33_CreatedUncounted ==
    /\ handler = "alert" /\ ~cfg.DryRun
    /\ Len(Ticketed) = 1 /\ Len(issues) = 1
    /\ metrics.JiraIssueCreated = 0

\* the host component of a host setting: what stands between "://" and the next "/"
HostComponent(v) == IF Contains(v, "://") THEN Cut(Cut(v, "://").after, "/").before ELSE ""

\* the setting begins with one of the schemes the validation accepts
AcceptedScheme(v) == \E s \in {"http", "https", "ldaps"} : HasPrefix(ToLower(v), s \o ":")

\* the errors the validation is to report for the setting name with value v
ExpectedHostErrors(name, v) ==
    IF v = "" THEN <<>>
    ELSE (IF HostComponent(v) = "" THEN <<name \o " invalid URL: " \o v>> ELSE <<>>)
            \o (IF AcceptedScheme(v) THEN <<>> ELSE <<name \o " missing scheme: " \o v>>)

\* the errors the validation is to report for the configuration
ExpectedErrors ==
    ExpectedHostErrors("ldapconfig.host", conf.LDAPHost)
        \o ExpectedHostErrors("splunkconfig.host", conf.SplunkHost)
        \o ExpectedHostErrors("jiraconfig.host", conf.JiraHost)

\* C34: host validation. For each of the three host settings
\* hostFieldsAreParsable reports nothing for an empty value, "invalid URL" for
\* a value with no host component, "missing scheme" for a value whose scheme
\* is not http, https or ldaps, and nothing for a value with such a scheme and
\* a host: run on any configuration, it returns exactly those errors.
C34_HostValidation ==
    vpc \in {"checked", "panic"} => (vpc = "checked" /\ verrs = ExpectedErrors)

\* whenever hostFieldsAreParsable returns, it returns exactly those errors
C34_WhenReturned == vpc = "checked" => verrs = ExpectedErrors

\* a value with neither host component nor accepted scheme ends the validation in a panic
C34_NoReport ==
    /\ vpc = "panic"
    /\ conf.LDAPHost = "10.0.0.1:389"
    /\ ExpectedHostErrors("ldapconfig.host", conf.LDAPHost)
        = <<"ldapconfig.host invalid URL: 10.0.0.1:389", "ldapconfig.host missing scheme: 10.0.0.1:389">>

\* the values of the three host settings that url.Parse rejects
Rejected ==
    {v \in {conf.LDAPHost, conf.SplunkHost, conf.JiraHost} : v # "" /\ ParseURL(v).err}

\* C39: hostFieldsAreParsable is total. Run on any configuration, a value that
\* url.Parse rejects included, it does not crash and returns a list of errors
\* that has a "failed to parse URL" entry for every rejected value.
C39_HostValidationTotal ==
    /\ vpc # "panic"
    /\ vpc = "checked" =>
        \A v \in Rejected :
            \E i \in 1..Len(verrs) : Contains(verrs[i], "failed to parse URL: " \o v)

\* the validation has crashed on a port that is not a number
C39_Panic ==
    /\ vpc = "panic"
    /\ conf = [LDAPHost |-> "ldaps://ldap.example.org", SplunkHost |-> "",
               JiraHost |-> "https://jira.example.org:port"]

\* the validation returns exactly when url.Parse rejects none of the values
C39_ReturnsIffParsed == vpc \in {"checked", "panic"} => (vpc = "checked" <=> Rejected = {})

\* the status codes a handler answers with
AnswerCodes == {StatusOK, StatusNoContent, StatusInternalServerError, 400, 415}

\* C35: exactly one response. Every execution of ProcessAlertHandler and of
\* ProcessJiraWebhook, however it ends, has written exactly one response
\* status: 200 or 204, the status of the malformed request, or 500.
C35_ExactlyOneResponse ==
    pc \in {"done", "panic"} => (Len(resp) = 1 /\ resp[1].code \in AnswerCodes)

\* a handler that returns has written exactly one response status
C35_WhenReturned ==
    pc = "done" => (Len(resp) = 1 /\ resp[1].code \in AnswerCodes)

\* a notification for an unassigned issue has ended with no response written
C35_NoResponse ==
    /\ handler = "jira" /\ pc = "panic" /\ resp = <<>>
    /\ LastIs("HandleUpdate")

\* an alert whose results hold a list with a number has ended with no response written
C35_NoResponseAlert ==
    /\ handler = "alert" /\ pc = "panic" /\ resp = <<>>
    /\ LastIs("RetrieveSearchFromAlert")

\* the DoTransition calls of the latest HandleUpdate
UpdateTransitions == SelectSeq(tcalls, LAMBDA c : c.op = "DoTransition")

\* C36: at most one transition per notification. Every HandleUpdate call
\* issues at most one DoTransition, for the issue of the notification and for
\* a transition the tracker names Transitions["sre"] or Transitions["manager"];
\* it never applies the initial transition or any other one.
C36_OneRoleTransition ==
    (handler = "jira" /\ LastIs("HandleUpdate")) =>
        /\ Len(UpdateTransitions) <= 1
        /\ \A i \in 1..Len(UpdateTransitions) :
            /\ UpdateTransitions[i].issue = LastStep.k
            /\ UpdateTransitions[i].name
                   \in {Transitions[sreTransitionKey], Transitions[managerTransitionKey]}
            /\ UpdateTransitions[i].name # Transitions[initialTransitionKey]

\* a comment by the SRE has moved the issue, by one DoTransition, on a tracker
\* that lists the initial transition first
C36_Witness ==
    /\ handler = "jira" /\ LastIs("HandleUpdate") /\ LastStep.ok
    /\ Len(UpdateTransitions) = 1
    /\ UpdateTransitions[1].arg = "21"
    /\ UpdateTransitions[1].name = Transitions[sreTransitionKey]

\* the live issue carries no sre and no manager correlation label
Unlabelled ==
    \A j \in 1..Len(Live.Labels) :
        /\ ~HasPrefix(Live.Labels[j], "compliance-audit-router/sre")
        /\ ~HasPrefix(Live.Labels[j], "compliance-audit-router/manager")

\* C37: only engine-managed issues are transitioned. HandleUpdate makes no
\* DoTransition call for a live issue that carries no sre or manager
\* correlation label, whoever the comment author and the assignee are, an
\* author and an assignee with an empty account id included.
C37_OnlyManaged == (Updated /\ Unlabelled) => ~HasCall("DoTransition")

\* an unlabelled issue is left alone on a comment by an author with an account id
C37_WithAccountId ==
    (Updated /\ Unlabelled /\ LastStep.user # "") => ~HasCall("DoTransition")

\* a comment by an author without account id has moved an unlabelled issue,
\* assigned to a user without account id, to the state of Transitions["sre"]
C37_Transitioned ==
    /\ Updated /\ Unlabelled /\ LastStep.ok
    /\ LastStep.user = "" /\ Live.Assignee = <<"">>
    /\ \E i \in 1..Len(tcalls) :
        /\ tcalls[i].op = "DoTransition" /\ tcalls[i].ok
        /\ tcalls[i].name = Transitions[sreTransitionKey]

\* but for a comment without account id on an unlabelled issue, an assignee
\* who is neither the recorded SRE nor the recorded manager gets an error and
\* no transition
C25_WithRecordedIds ==
    (FromAssignee /\ NeitherRole /\ ~(Unlabelled /\ LastStep.user = "")) =>
        /\ ~LastStep.ok
        /\ ~HasCall("DoTransition")
        /\ resp = <<status500>>

\* the credential values of the nested maps that hold a token
NestedTokens ==
    {settings[k].v["token"].v :
        k \in {j \in DOMAIN settings : settings[j].kind = "map" /\ "token" \in DOMAIN settings[j].v}}

\* the tokens of the settings
Tokens == {settings[k].v : k \in {j \in DOMAIN settings : j = "token"}} \cup NestedTokens

\* C38: credentials are not logged at startup. For every configuration, no
\* line produced by checkSettings holds a credential value: every token and
\* the LDAP password are masked, in top-level and in nested settings.
C38_CredentialsMasked ==
    spc = "printed" =>
        \A secret \in Tokens \cup {settings["ldapconfig"].v["password"].v} :
            \A i \in 1..Len(printed) : ~Contains(printed[i], secret)

\* every token, top-level or nested, is logged as *****
C38_TokensMasked ==
    spc = "printed" =>
        /\ \A secret \in Tokens : \A i \in 1..Len(printed) : ~Contains(printed[i], secret)
        /\ \A k \in DOMAIN settings :
            (settings[k].kind = "map" /\ "token" \in DOMAIN settings[k].v) =>
                \E i \in 1..Len(printed) : printed[i] = "found key " \o k \o ".token: *****"

\* the LDAP bind password is in the log
C38_PasswordLogged ==
    /\ spc = "printed"
    /\ settings["ldapconfig"].v["password"].v = "hunter2"
    /\ \E i \in 1..Len(printed) : printed[i] = "found key ldapconfig.password: hunter2"

====
